---- MODULE Spec2Model ----
(***************************************************************************)
(* A model of the goskills runner and agent subagents.                     *)
(*                                                                         *)
(*   - the skill runner's tool-call loop (executeSkillWithTools and        *)
(*     executeToolCall, package goskills);                                 *)
(*   - SearchSubagent.Execute (package agent);                             *)
(*   - one session of the planner, review gate and orchestrator, whose     *)
(*     code is not among the sources and is modelled from the design;      *)
(*   - the session manager with two concurrently running sessions, also    *)
(*     modelled from the design;                                           *)
(*   - Run with discoverSkills and selectSkill (package goskills).         *)
(*                                                                         *)
(* Each part has its own specification (SpecRunner, SpecSearch,            *)
(* SpecSession, SpecManager, SpecRun); the variables of the other parts    *)
(* stay idle in it.                                                        *)
(*                                                                         *)
(* Strings are TLA+ strings; fmt.Sprintf / fmt.Errorf are modelled by      *)
(* string concatenation (\o).  The LLM, the user at the terminal and the   *)
(* tool back-ends are the environment: their answers are drawn from small  *)
(* sets.                                                                   *)
(***************************************************************************)
EXTENDS Integers, Sequences, FiniteSets, TLC

VARIABLES
    \* ---- executeSkillWithTools ----
    autoApprove,   \* cfg.AutoApproveTools
    pc,            \* position of executeSkillWithTools
    i,             \* the loop counter of "for i := 0; i < 10; i++"
    messages,      \* the conversation sent with every chat-completion request
    tcIdx,         \* index of the tool call the inner range loop is at
    finalOutput,   \* the string executeSkillWithTools returns
    retErr,        \* the error executeSkillWithTools returns ("" is nil)
    nextID,        \* the id the LLM API gives to its next tool call
    trace,         \* what the runner has done: chat requests, prompts, dispatches
    odd,           \* how many non-default environment answers were drawn so far
    \* ---- SearchSubagent.Execute ----
    spc,           \* position of SearchSubagent.Execute
    task,          \* the Task Execute was called with
    hasHandler,    \* s.interactionHandler != nil
    searchResult,  \* the local variable searchResult
    result,        \* the Result Execute returns
    calls,         \* the back-end calls Execute has made, in order
    \* ---- one session of the orchestrator ----
    opc,           \* position of the orchestrator
    review,        \* the session is configured for human review of the plan
    registered,    \* the task types a subagent is registered for
    plan,          \* the tasks of the current plan, by type
    taskIdx,       \* index (from 0) of the task the orchestrator is at
    malformed,     \* how many malformed plans the planner has returned in a row
    replans,       \* how many modification instructions the reviewer has sent
    cancelled,     \* the cancellation token has fired
    events,        \* the session's outbound event channel, oldest first
    results,       \* the Results the orchestrator has accumulated
    context,       \* parameters.context of the task the orchestrator is at
    replies,       \* what the reviewer has posted on the response channel
    \* ---- the session manager and its sessions ----
    table,         \* session_id -> the Session registered under it
    orchs,         \* the orchestrators that are running, as <<session_id, generation>>
    channel,       \* session_id -> the event channel of its session, oldest first
    stream,        \* session_id -> the events the transport has sent to its client
    \* ---- Run ----
    rpc,               \* position of Run
    apiKey,            \* cfg.APIKey
    packages,          \* what ParseSkillPackages(cfg.SkillsDir) returned
    availableSkills,   \* the map discoverSkills returned
    response,          \* the content of the LLM's reply to the selection request
    selectedSkillName, \* what selectSkill returned
    runOutput,         \* the string Run returns
    runErr,            \* the error Run returns ("" is nil)
    made,              \* the LLM requests and tool invocations Run has made, in order
    \* ---- executeToolCall ----
    tpc,           \* position of executeToolCall
    tenv,          \* what the call finds: PATH, the files, skillPath, scriptMap
    tcall,         \* the tool call: its name and its decoded arguments
    tlog,          \* the programs started and the files read, in order
    tret,          \* what executeToolCall returns
    \* ---- Analysis, Report and Render subagents ----
    apc,           \* position of Execute
    asetup,        \* the subagent: its type and its configuration
    atask,         \* the Task Execute is called with
    arequest,      \* the chat completion requests sent
    acontent,      \* Render: the content handed to the renderer
    alogs,         \* what Execute passed to interactionHandler.Log
    areturns,      \* the (Result, error) pairs Execute has returned
    \* ---- the browser UI ----
    tasks,             \* let tasks
    currentTaskIndex,  \* let currentTaskIndex
    items,             \* the elements task-0, task-1, ... of the plan panel: their state
    loading,           \* userInput.disabled and sendBtn.disabled
    eventSource,       \* the EventSource is open
    modals,            \* the plan review overlays in the document
    posts,             \* the requests sent to /api/chat and /api/respond
    handled,           \* how many user and server events the page has handled
    lastEvent          \* the event handled last

runnerVars == <<autoApprove, pc, i, messages, tcIdx, finalOutput, retErr, nextID, trace, odd>>
searchVars == <<spc, task, hasHandler, searchResult, result, calls>>
sessionVars == <<opc, review, registered, plan, taskIdx, malformed, replans, cancelled, events,
                 results, context, replies>>
managerVars == <<table, orchs, channel, stream>>
runVars == <<rpc, apiKey, packages, availableSkills, response, selectedSkillName,
             runOutput, runErr, made>>
toolVars == <<tpc, tenv, tcall, tlog, tret>>
subagentVars == <<apc, asetup, atask, arequest, acontent, alogs, areturns>>
uiVars == <<tasks, currentTaskIndex, items, loading, eventSource, modals, posts, handled,
            lastEvent>>
vars == <<runnerVars, searchVars, sessionVars, managerVars, runVars, toolVars, subagentVars,
          uiVars>>

\* What an action of one part leaves alone: the variables of the other parts.
othersOfRunner ==
    <<searchVars, sessionVars, managerVars, runVars,
      toolVars, subagentVars, uiVars>>
othersOfSearch ==
    <<runnerVars, sessionVars, managerVars, runVars,
      toolVars, subagentVars, uiVars>>
othersOfSession ==
    <<runnerVars, searchVars, managerVars, runVars,
      toolVars, subagentVars, uiVars>>
othersOfManager ==
    <<runnerVars, searchVars, sessionVars, runVars,
      toolVars, subagentVars, uiVars>>
othersOfRun ==
    <<runnerVars, searchVars, sessionVars, managerVars,
      toolVars, subagentVars, uiVars>>
othersOfTool ==
    <<runnerVars, searchVars, sessionVars, managerVars,
      runVars, subagentVars, uiVars>>
othersOfSubagents ==
    <<runnerVars, searchVars, sessionVars, managerVars,
      runVars, toolVars, uiVars>>
othersOfUI ==
    <<runnerVars, searchVars, sessionVars, managerVars,
      runVars, toolVars, subagentVars>>

-----------------------------------------------------------------------------
(* Bounds of the model and constants of the program.                       *)

\* for i := 0; i < 10; i++
MaxIterations == 10

\* The LLM lists at most this many tool calls in one assistant message.
MaxCalls == 2

\* At most this many environment answers of one run differ from the plain
\* one (a single well-formed read_file call that is approved and succeeds).
MaxOdd == 2

\* A plan has at most this many tasks.
MaxTasks == 2

\* The reviewer sends at most this many modification instructions.
MaxReplans == 1

\* At most this many sessions are created, one after the other, under one
\* session id.
MaxGenerations == 2

\* An orchestrator emits at most this many events before its terminal one.
MaxEvents == 1

\* ParseSkillPackages returns at most this many entries.
MaxPackages == 2

\* The LLM wraps the name it answers in at most this many characters of
\* whitespace or quotes on each side.
MaxWrap == 2


-----------------------------------------------------------------------------
(* The runner: tool calls and executeToolCall.                             *)

\* The tool names executeToolCall's switch knows.
BuiltinTools ==
    {"run_shell_code", "run_shell_script", "run_python_code", "run_python_script",
     "read_file", "write_file", "duckduckgo_search", "wikipedia_search", "web_fetch"}

\* scriptMap of the selected skill (GenerateToolDefinitions): tool name -> script path.
ScriptNames == {"run_helper_py", "run_build_sh"}
scriptMap ==
    [n \in ScriptNames |-> IF n = "run_helper_py"
                           THEN [stem |-> "scripts/helper", ext |-> ".py"]
                           ELSE [stem |-> "scripts/build", ext |-> ".sh"]]

\* strings.HasSuffix(scriptPath, ".py")
HasSuffixPy(scriptPath) == scriptPath.ext = ".py"

\* The texts of tc.Function.Arguments the LLM sends: a JSON object, the empty
\* string, and a text that is no JSON.
ArgTexts == {"{}", "", "{oops"}

\* json.Unmarshal([]byte(arguments), &params) returns nil.
UnmarshalOK(arguments) == arguments = "{}"

\* The error text of a failing json.Unmarshal.
UnmarshalErr(arguments) ==
    IF arguments = "" THEN "unexpected end of JSON input"
    ELSE "invalid character 'o' looking for beginning of object key string"

\* What a tool back-end answers: its output, or an error.
BackendOutput(name) == "output of " \o name
BackendErr == "exit status 1"

\* The back-end a well-formed call of `name` reaches.
Backend(name) ==
    IF name \in BuiltinTools THEN name
    ELSE IF name \in DOMAIN scriptMap
         THEN (IF HasSuffixPy(scriptMap[name]) THEN "RunPythonScript"
               ELSE "RunShellScript")
         ELSE "none"

\* executeToolCall(toolCall, scriptMap, skillPath): (toolOutput, err).
\* ok is err == nil, text is toolOutput or err.Error(), ran is the back-end
\* that was run ("none" when the call never reached one).
ExecuteToolCall(tc, backendOK) ==
    IF tc.name \in BuiltinTools
    THEN IF ~UnmarshalOK(tc.arguments)
         THEN [ok |-> FALSE,
               text |-> "failed to unmarshal " \o tc.name \o " arguments: "
                        \o UnmarshalErr(tc.arguments),
               ran |-> "none"]
         ELSE IF backendOK
              THEN [ok |-> TRUE, text |-> BackendOutput(tc.name), ran |-> tc.name]
              ELSE [ok |-> FALSE,
                    text |-> "tool execution failed for " \o tc.name \o ": " \o BackendErr,
                    ran |-> tc.name]
    ELSE IF tc.name \in DOMAIN scriptMap
         THEN IF tc.arguments # "" /\ ~UnmarshalOK(tc.arguments)
              THEN [ok |-> FALSE,
                    text |-> "failed to unmarshal script arguments: "
                             \o UnmarshalErr(tc.arguments),
                    ran |-> "none"]
              ELSE IF backendOK
                   THEN [ok |-> TRUE, text |-> BackendOutput(tc.name), ran |-> Backend(tc.name)]
                   ELSE [ok |-> FALSE,
                         text |-> "tool execution failed for " \o tc.name \o ": " \o BackendErr,
                         ran |-> Backend(tc.name)]
         ELSE [ok |-> FALSE, text |-> "unknown tool: " \o tc.name, ran |-> "none"]


-----------------------------------------------------------------------------
(* The runner: executeSkillWithTools.                                      *)

\* openai.ChatCompletionMessage.  nilCalls is msg.ToolCalls == nil: Go tells
\* a nil slice (the field absent from the reply's JSON, or null) from an empty
\* one (the reply carries "tool_calls": []).
Message(role, content, nilCalls, toolCalls, toolCallID) ==
    [role |-> role, content |-> content, nilCalls |-> nilCalls,
     toolCalls |-> toolCalls, toolCallID |-> toolCallID]

SystemMessage == Message("system", "skill body\n\n## SKILL CONTEXT\nSkill Root Path: /skills/demo\n",
                         TRUE, <<>>, 0)
UserMessage == Message("user", "user prompt", TRUE, <<>>, 0)

\* A mutant of the denial message that leaves ToolCallID out.
DeniedMessageWithoutID(tc) ==
    Message("tool", "Error: User denied tool execution.", TRUE, <<>>, 0)

\* The tool-role message appended for a call the user denied.
DeniedMessage(tc) ==
    Message("tool", "Error: User denied tool execution.", TRUE, <<>>, tc.id)

\* The tool-role message appended after executeToolCall returned r.
ToolMessage(tc, r) ==
    Message("tool", IF r.ok THEN r.text ELSE "Error: " \o r.text, TRUE, <<>>, tc.id)

\* What the user types at "Allow this tool execution? [y/N]: ".
Inputs == {"y", "Y", "n"}

\* strings.ToLower on the inputs above.
ToLower(input) == IF input = "Y" THEN "y" ELSE input

\* A mutant of the security check that takes every answer for a yes.
AllowedWhateverTyped(input) == TRUE

\* strings.ToLower(input) != "y" is false: the user allowed the call.
Allowed(input) == ToLower(input) = "y"

\* A mutant of the loop condition that is off by one.
LoopConditionOffByOne(n) == n <= MaxIterations

\* for i := 0; i < 10; i++
LoopCondition(n) == n < MaxIterations

\* A mutant of the test for the final answer that takes every reply as final.
NoToolCallsAlways(msg) == TRUE

\* if msg.ToolCalls == nil
NoToolCalls(msg) == msg.nilCalls

\* What the LLM may ask for in one tool call: (name, arguments).
PlainCall == [name |-> "read_file", arguments |-> "{}"]
CallKinds ==
    {PlainCall,
     [name |-> "read_file", arguments |-> "{oops"],
     [name |-> "no_such_tool", arguments |-> "{}"]}

\* The lists of tool calls of one assistant message, with their cost in
\* answers that are not the plain one.
RECURSIVE SeqsUpTo(_, _)
SeqsUpTo(S, n) ==
    IF n = 0 THEN {<<>>}
    ELSE LET shorter == SeqsUpTo(S, n - 1)
         IN  shorter \cup {Append(q, x) : q \in {r \in shorter : Len(r) = n - 1}, x \in S}

CallLists == SeqsUpTo(CallKinds, MaxCalls) \ {<<>>}

CallListCost(cl) ==
    (Len(cl) - 1) + Cardinality({k \in 1..Len(cl) : cl[k] # PlainCall})

\* The API numbers the calls of a reply: call k of the list gets id first + k - 1.
WithIDs(cl, first) ==
    [k \in 1..Len(cl) |->
        [id |-> first + k - 1, name |-> cl[k].name, arguments |-> cl[k].arguments]]

\* The texts of an assistant message.
Contents == {"answer A", "answer B"}

\* One entry of the trace: a chat-completion request ("chat", with whether it
\* succeeded), a prompt to the user ("prompt", with what the user typed), a
\* call of executeToolCall ("dispatch", with whether it succeeded) and the run
\* of a back-end ("backend", with which one).
Event(ev, id, what) == [ev |-> ev, id |-> id, what |-> what]

LastMessage == messages[Len(messages)]

\* The assistant message the inner loop is ranging over.
LastAssistantIdx ==
    CHOOSE k \in 1..Len(messages) :
        /\ messages[k].role = "assistant"
        /\ \A j \in (k + 1)..Len(messages) : messages[j].role # "assistant"
LastAssistant == messages[LastAssistantIdx]

\* A mutant of ChatCompletionError that goes on to the next pass of the loop
\* instead of returning.
ChatCompletionErrorRetried ==
    /\ pc = "chat"
    /\ LoopCondition(i)
    /\ i' = i + 1
    /\ retErr' = "ChatCompletion error: status 500"
    /\ trace' = Append(trace, Event("chat", 0, FALSE))
    /\ UNCHANGED <<autoApprove, pc, messages, tcIdx, finalOutput, nextID, odd>>

\* client.CreateChatCompletion returns an error.
ChatCompletionError ==
    /\ pc = "chat"
    /\ LoopCondition(i)
    /\ pc' = "failed"
    /\ retErr' = "ChatCompletion error: status 500"
    /\ trace' = Append(trace, Event("chat", 0, FALSE))
    /\ UNCHANGED <<autoApprove, i, messages, tcIdx, finalOutput, nextID, odd>>

\* The rest of one pass of the outer loop once the reply msg is there, up to
\* the first tool call.
AfterReply(msg) ==
    /\ messages' = Append(messages, msg)
    /\ trace' = Append(trace, Event("chat", 0, TRUE))
    /\ IF NoToolCalls(msg)
       THEN /\ finalOutput' = msg.content
            /\ pc' = "returned"
            /\ UNCHANGED <<i, tcIdx>>
       ELSE IF msg.toolCalls = <<>>
            THEN /\ i' = i + 1
                 /\ pc' = "chat"
                 /\ UNCHANGED <<finalOutput, tcIdx>>
            ELSE /\ tcIdx' = 1
                 /\ pc' = "tool"
                 /\ UNCHANGED <<finalOutput, i>>

\* The LLM answers with no tool_calls field.
ReplyFinal ==
    /\ pc = "chat"
    /\ LoopCondition(i)
    /\ \E c \in Contents : AfterReply(Message("assistant", c, TRUE, <<>>, 0))
    /\ UNCHANGED <<autoApprove, retErr, nextID, odd>>

\* The LLM answers with "tool_calls": [].
ReplyEmptyToolCalls ==
    /\ pc = "chat"
    /\ LoopCondition(i)
    /\ odd < MaxOdd
    /\ odd' = odd + 1
    /\ AfterReply(Message("assistant", "answer A", FALSE, <<>>, 0))
    /\ UNCHANGED <<autoApprove, retErr, nextID>>

\* The LLM answers with one or more tool calls.
ReplyToolCalls ==
    /\ pc = "chat"
    /\ LoopCondition(i)
    /\ \E cl \in CallLists :
          /\ odd + CallListCost(cl) <= MaxOdd
          /\ odd' = odd + CallListCost(cl)
          /\ nextID' = nextID + Len(cl)
          /\ AfterReply(Message("assistant", "", FALSE, WithIDs(cl, nextID), 0))
    /\ UNCHANGED <<autoApprove, retErr>>

\* The end of one pass of the inner loop: the next call, or the next pass of
\* the outer loop.
NextToolCall ==
    IF tcIdx < Len(LastAssistant.toolCalls)
    THEN /\ tcIdx' = tcIdx + 1
         /\ UNCHANGED <<pc, i>>
    ELSE /\ tcIdx' = 0
         /\ i' = i + 1
         /\ pc' = "chat"

\* What reading the answer to the prompt costs: "y" is the plain answer.
InputCost(input) == IF input = "y" THEN 0 ELSE 1

\* One pass of "for _, tc := range msg.ToolCalls" in which the user is asked
\* and denies the call.
DenyToolCall ==
    /\ pc = "tool"
    /\ ~autoApprove
    /\ odd < MaxOdd
    /\ LET tc == LastAssistant.toolCalls[tcIdx] IN
       \E input \in Inputs :
          /\ ~Allowed(input)
          /\ odd' = odd + InputCost(input)
          /\ trace' = Append(trace, Event("prompt", tc.id, input))
          /\ messages' = Append(messages, DeniedMessage(tc))
    /\ NextToolCall
    /\ UNCHANGED <<autoApprove, finalOutput, retErr, nextID>>

\* A mutant of RunToolCall that returns the tool's error to the caller
\* instead of feeding it back to the LLM.
RunToolCallAborting ==
    /\ pc = "tool"
    /\ LET tc == LastAssistant.toolCalls[tcIdx] IN
       \E input \in (IF autoApprove THEN {"y"} ELSE Inputs), backendOK \in BOOLEAN :
          LET r == ExecuteToolCall(tc, backendOK)
              asked == IF autoApprove THEN <<>> ELSE <<Event("prompt", tc.id, input)>>
              ran == IF r.ran = "none" THEN <<>> ELSE <<Event("backend", tc.id, r.ran)>>
              cost == InputCost(input) + (IF r.ran # "none" /\ ~r.ok THEN 1 ELSE 0)
          IN  /\ autoApprove \/ Allowed(input)
              /\ r.ran = "none" => backendOK
              /\ odd + cost <= MaxOdd
              /\ odd' = odd + cost
              /\ trace' = trace \o asked \o <<Event("dispatch", tc.id, r.ok)>> \o ran
              /\ IF r.ok
                 THEN /\ messages' = Append(messages, ToolMessage(tc, r))
                      /\ NextToolCall
                      /\ UNCHANGED retErr
                 ELSE /\ retErr' = r.text
                      /\ pc' = "failed"
                      /\ UNCHANGED <<messages, tcIdx, i>>
    /\ UNCHANGED <<autoApprove, finalOutput, nextID>>

\* One pass of the inner loop in which the call is dispatched to
\* executeToolCall: the user allowed it, or nobody is asked.
RunToolCall ==
    /\ pc = "tool"
    /\ LET tc == LastAssistant.toolCalls[tcIdx] IN
       \E input \in (IF autoApprove THEN {"y"} ELSE Inputs), backendOK \in BOOLEAN :
          LET r == ExecuteToolCall(tc, backendOK)
              asked == IF autoApprove THEN <<>> ELSE <<Event("prompt", tc.id, input)>>
              ran == IF r.ran = "none" THEN <<>> ELSE <<Event("backend", tc.id, r.ran)>>
              cost == InputCost(input) + (IF r.ran # "none" /\ ~r.ok THEN 1 ELSE 0)
          IN  /\ autoApprove \/ Allowed(input)
              /\ r.ran = "none" => backendOK
              /\ odd + cost <= MaxOdd
              /\ odd' = odd + cost
              /\ trace' = trace \o asked \o <<Event("dispatch", tc.id, r.ok)>> \o ran
              /\ messages' = Append(messages, ToolMessage(tc, r))
    /\ NextToolCall
    /\ UNCHANGED <<autoApprove, finalOutput, retErr, nextID>>

\* The outer loop ran out: return "", errors.New(...).
LoopExhausted ==
    /\ pc = "chat"
    /\ ~LoopCondition(i)
    /\ pc' = "failed"
    /\ retErr' = "exceeded maximum tool call iterations"
    /\ UNCHANGED <<autoApprove, i, messages, tcIdx, finalOutput, nextID, trace, odd>>

InitRunner ==
    /\ autoApprove \in BOOLEAN
    /\ pc = "chat"
    /\ i = 0
    /\ messages = <<SystemMessage, UserMessage>>
    /\ tcIdx = 0
    /\ finalOutput = ""
    /\ retErr = ""
    /\ nextID = 1
    /\ trace = <<>>
    /\ odd = 0

IdleSession ==
    /\ opc = "idle"
    /\ review = FALSE
    /\ registered = {}
    /\ plan = <<>>
    /\ taskIdx = 0
    /\ malformed = 0
    /\ replans = 0
    /\ cancelled = FALSE
    /\ events = <<>>
    /\ results = <<>>
    /\ context = <<>>
    /\ replies = <<>>

\* The session ids of the model.
SessionIds == {"A", "B"}

\* No Session is registered under an id.
NoSession == [gen |-> 0, status |-> "none", token |-> FALSE]

IdleManager ==
    /\ table = [id \in SessionIds |-> NoSession]
    /\ orchs = {}
    /\ channel = [id \in SessionIds |-> <<>>]
    /\ stream = [id \in SessionIds |-> <<>>]

\* The empty map of skills.
NoSkills == [name \in {} |-> ""]

\* The LLM's reply as the model builds it: a text, with what stands before
\* and after it.
Reply(pre, core, post) == [pre |-> pre, core |-> core, post |-> post]

IdleRun ==
    /\ rpc = "idle"
    /\ apiKey = ""
    /\ packages = <<>>
    /\ availableSkills = NoSkills
    /\ response = Reply("", "", "")
    /\ selectedSkillName = ""
    /\ runOutput = ""
    /\ runErr = ""
    /\ made = <<>>

\* Result{}: the zero value.
NoResult == [taskType |-> "", success |-> FALSE, output |-> "", error |-> "", query |-> ""]

\* executeToolCall is not called.
IdleTool ==
    /\ tpc = "idle"
    /\ tenv = [onPath |-> {}, files |-> {}, skillPath |-> "", scriptMap |-> <<>>]
    /\ tcall = [name |-> "", arguments |-> ""]
    /\ tlog = <<>>
    /\ tret = [ok |-> FALSE, text |-> ""]

\* No subagent of this part is called.
IdleSubagents ==
    /\ apc = "idle"
    /\ asetup = [agent |-> "", renderHTML |-> FALSE, hasHandler |-> FALSE]
    /\ atask = [description |-> ""]
    /\ arequest = <<>>
    /\ acontent = ""
    /\ alogs = <<>>
    /\ areturns = <<>>

\* The page is not loaded.
IdleUI ==
    /\ tasks = <<>>
    /\ currentTaskIndex = -1
    /\ items = <<>>
    /\ loading = FALSE
    /\ eventSource = FALSE
    /\ modals = <<>>
    /\ posts = <<>>
    /\ handled = 0
    /\ lastEvent = [type |-> "none"]

IdleSearch ==
    /\ spc = "idle"
    /\ task = [description |-> "", hasQuery |-> FALSE, query |-> ""]
    /\ hasHandler = FALSE
    /\ searchResult = ""
    /\ result = NoResult
    /\ calls = <<>>

NextRunner ==
    \/ (ChatCompletionError /\ UNCHANGED othersOfRunner)
    \/ (ReplyFinal /\ UNCHANGED othersOfRunner)
    \/ (ReplyEmptyToolCalls /\ UNCHANGED othersOfRunner)
    \/ (ReplyToolCalls /\ UNCHANGED othersOfRunner)
    \/ (DenyToolCall /\ UNCHANGED othersOfRunner)
    \/ (RunToolCall /\ UNCHANGED othersOfRunner)
    \/ (LoopExhausted /\ UNCHANGED othersOfRunner)

RunnerAlone ==
    /\ InitRunner /\ IdleSearch /\ IdleSession /\ IdleManager /\ IdleRun
    /\ IdleTool /\ IdleSubagents /\ IdleUI

SpecRunner == RunnerAlone /\ [][NextRunner]_vars


\* What Run returns once executeSkillWithTools has returned.
RunResult ==
    IF pc = "failed"
    THEN [output |-> "", err |-> "failed during skill execution: " \o retErr]
    ELSE [output |-> finalOutput, err |-> ""]

-----------------------------------------------------------------------------
(* Claims about the tool-call loop.                                        *)

AssistantIdxs == {k \in 1..Len(messages) : messages[k].role = "assistant"}
ToolIdxs == {k \in 1..Len(messages) : messages[k].role = "tool"}
TraceIdxs(ev) == {k \in 1..Len(trace) : trace[k].ev = ev}
ChatRounds == Cardinality(TraceIdxs("chat"))
ApprovingInputs == {"y", "Y"}

\* C1: executeSkillWithTools makes at most 10 chat-completion requests
\* whatever the LLM answers, and when it returns an output the last assistant
\* message of the conversation, which is also its last message, carries no
\* tool calls.
C1_RoundsBoundedAndFinalHasNoCalls ==
    /\ ChatRounds <= MaxIterations
    /\ pc = "returned" =>
          /\ LastMessage.role = "assistant"
          /\ Len(LastMessage.toolCalls) = 0

\* C1 witness: the output is returned in the tenth round.
C1_Witness == pc = "returned" /\ ChatRounds = MaxIterations

\* C3: whenever the loop is about to issue a chat-completion request after
\* the first, the conversation ends with the preceding assistant message
\* followed by one tool-role message per tool call of it, in the order of the
\* calls, the k-th bearing the id of the k-th call, and no other message of
\* the conversation bears that id.
C3_ToolMessagesAnswerCallsInOrder ==
    (pc = "chat" /\ i > 0) =>
        LET a == LastAssistantIdx
            tcs == messages[a].toolCalls
        IN  /\ Len(messages) = a + Len(tcs)
            /\ \A k \in 1..Len(tcs) :
                  /\ messages[a + k].role = "tool"
                  /\ messages[a + k].toolCallID = tcs[k].id
                  /\ {j \in ToolIdxs : messages[j].toolCallID = tcs[k].id} = {a + k}

\* C3 witness: a reply with two calls, the first denied and the second run,
\* has been answered and the next request is due.
C3_Witness ==
    /\ pc = "chat" /\ i > 0 /\ LoopCondition(i)
    /\ Len(LastAssistant.toolCalls) = 2
    /\ messages[Len(messages) - 1].content = "Error: User denied tool execution."
    /\ messages[Len(messages)].content = BackendOutput("read_file")

\* The ids of the trace's events of one kind, and of the tool-role messages,
\* oldest first.
IsPrompt(e) == e.ev = "prompt"
IsDispatch(e) == e.ev = "dispatch"
IsToolMessage(m) == m.role = "tool"
IDsOf(evs) == [k \in 1..Len(evs) |-> evs[k].id]
ToolMessageIDs ==
    LET ms == SelectSeq(messages, IsToolMessage) IN [k \in 1..Len(ms) |-> ms[k].toolCallID]

\* C4: with auto-approve off, every tool call the inner loop has passed was
\* prompted for, once and before anything else was done for it, it was
\* dispatched (and a back-end run) only if the answer was an approval, and an
\* approved call was dispatched at once.  With auto-approve on, nothing is
\* prompted and every call passed was dispatched.
C4_ApprovalGate ==
    /\ IF autoApprove
       THEN /\ SelectSeq(trace, IsPrompt) = <<>>
            /\ IDsOf(SelectSeq(trace, IsDispatch)) = ToolMessageIDs
       ELSE IDsOf(SelectSeq(trace, IsPrompt)) = ToolMessageIDs
    /\ \A k \in 1..Len(trace) :
          /\ trace[k].ev = "dispatch" =>
                \/ autoApprove
                \/ /\ k > 1
                   /\ trace[k - 1].ev = "prompt"
                   /\ trace[k - 1].id = trace[k].id
                   /\ trace[k - 1].what \in ApprovingInputs
          /\ trace[k].ev = "backend" =>
                /\ k > 1
                /\ trace[k - 1].ev = "dispatch"
                /\ trace[k - 1].id = trace[k].id
          /\ trace[k].ev = "prompt" =>
                IF trace[k].what \in ApprovingInputs
                THEN /\ k < Len(trace)
                     /\ trace[k + 1].ev = "dispatch"
                     /\ trace[k + 1].id = trace[k].id
                ELSE k < Len(trace) => trace[k + 1].ev \in {"chat", "prompt"}

\* C4 witness: with auto-approve off one call was denied and another one was
\* approved with "Y" and run.
C4_Witness ==
    /\ ~autoApprove
    /\ \E p \in TraceIdxs("prompt") : trace[p].what = "n"
    /\ \E p \in TraceIdxs("prompt") :
          /\ trace[p].what = "Y"
          /\ \E b \in TraceIdxs("backend") : trace[b].id = trace[p].id

\* The calls the user denied, as the trace has them.
DeniedIDs == {trace[p].id : p \in {k \in TraceIdxs("prompt") : trace[k].what \notin ApprovingInputs}}

\* C5: when the user denies a tool call, a tool-role message with the content
\* "Error: User denied tool execution." and the call's id is appended, the
\* tool is not executed, the loop goes on, and the next assistant message
\* without tool calls is returned as the final output.
C5_DenialThenFinalAnswer ==
    /\ \A id \in DeniedIDs :
          /\ \E m \in ToolIdxs :
                /\ messages[m].toolCallID = id
                /\ messages[m].content = "Error: User denied tool execution."
          /\ \A k \in TraceIdxs("dispatch") \cup TraceIdxs("backend") : trace[k].id # id
    /\ retErr \in {"", "ChatCompletion error: status 500",
                   "exceeded maximum tool call iterations"}
    /\ \A a \in AssistantIdxs :
          (/\ Len(messages[a].toolCalls) = 0
           /\ \E m \in ToolIdxs : m < a /\ messages[m].toolCallID \in DeniedIDs)
          => /\ a = Len(messages)
             /\ pc = "returned"
             /\ finalOutput = messages[a].content

\* The calls executeToolCall failed on, as the trace has them.
FailedIDs == {trace[d].id : d \in {k \in TraceIdxs("dispatch") : trace[k].what = FALSE}}

\* The tool call a tool-role message answers: the messages between it and
\* the assistant message before it answer that message's earlier calls.
AssistantBefore(m) ==
    CHOOSE a \in 1..(m - 1) :
        /\ messages[a].role = "assistant"
        /\ \A j \in (a + 1)..(m - 1) : messages[j].role = "tool"
CallAnswered(m) == messages[AssistantBefore(m)].toolCalls[m - AssistantBefore(m)]

\* C6: a tool call that fails (arguments that do not decode, an unknown tool
\* name, a back-end that fails) never ends executeSkillWithTools: the only
\* errors it returns are a failed chat completion and the exhausted loop, and
\* every failed call is answered by a tool-role message with the call's id
\* whose content is "Error: " followed by the error's text, after which the
\* loop is at the next call or the next round.
C6_FailingToolCallFedBack ==
    /\ retErr \in {"", "ChatCompletion error: status 500",
                   "exceeded maximum tool call iterations"}
    /\ FailedIDs \subseteq {messages[m].toolCallID : m \in ToolIdxs}
    /\ \A m \in ToolIdxs :
          LET tc == CallAnswered(m) IN
          /\ messages[m].toolCallID = tc.id
          /\ tc.id \in FailedIDs =>
                \E b \in BOOLEAN :
                   /\ ~ExecuteToolCall(tc, b).ok
                   /\ messages[m].content = "Error: " \o ExecuteToolCall(tc, b).text
    /\ (pc = "tool" /\ tcIdx > 1) =>
          messages[Len(messages)].toolCallID = LastAssistant.toolCalls[tcIdx - 1].id

\* C6 witness: an unknown tool and a failing back-end were both fed back and
\* the run went on to return an answer.
C6_Witness ==
    /\ pc = "returned"
    /\ \E m \in ToolIdxs : messages[m].content = "Error: unknown tool: no_such_tool"
    /\ \E m \in ToolIdxs :
          messages[m].content = "Error: tool execution failed for read_file: exit status 1"

\* Every reply of the LLM so far carried exactly one tool call.
AlwaysOneToolCall ==
    /\ \A k \in TraceIdxs("chat") : trace[k].what = TRUE
    /\ \A a \in AssistantIdxs : Len(messages[a].toolCalls) = 1

\* C7: when every reply of the LLM carries one tool call, the run never
\* returns an output; it ends with the error "exceeded maximum tool call
\* iterations", which Run wraps, after exactly 10 tool-role messages.
C7_AlwaysToolCallExhaustsLoop ==
    AlwaysOneToolCall =>
        /\ pc # "returned"
        /\ Cardinality(ToolIdxs) <= MaxIterations
        /\ pc = "failed" =>
              /\ retErr = "exceeded maximum tool call iterations"
              /\ RunResult.err = "failed during skill execution: "
                                 \o "exceeded maximum tool call iterations"
              /\ RunResult.output = ""
              /\ Cardinality(ToolIdxs) = MaxIterations
        /\ (pc = "chat" /\ ~ENABLED LoopExhausted) => Cardinality(ToolIdxs) < MaxIterations

\* C7 witness: the loop ran out after ten replies of one tool call each.
C7_Witness == AlwaysOneToolCall /\ pc = "failed" /\ ChatRounds = MaxIterations

\* C8: whenever an assistant message has no tool calls (the list is absent or
\* empty), that message is the last one of the conversation and its content
\* has been returned as the final output: no further LLM call is made.
C8_NoToolCallsReturnsAtOnce ==
    \A a \in AssistantIdxs :
        Len(messages[a].toolCalls) = 0 =>
            /\ a = Len(messages)
            /\ pc = "returned"
            /\ finalOutput = messages[a].content


-----------------------------------------------------------------------------
(* SearchSubagent.Execute.                                                 *)

\* The tasks Execute is called with: Parameters["query"] is a string or is
\* missing.
SearchTasks ==
    {[description |-> "find the history", hasQuery |-> TRUE, query |-> "olympic games"],
     [description |-> "find the history", hasQuery |-> FALSE, query |-> ""]}

\* query, ok := task.Parameters["query"].(string); if !ok { query = task.Description }
Query(t) == IF t.hasQuery THEN t.query ELSE t.description

\* What the back-ends answer.
TavilyTexts == {"tavily 5 results", "tavily 1 result"}
MoreTexts == {"tavily 50 results"}
DuckTexts == {"DDG-OK", "DDG: no results"}
WikiTexts == {"", "wiki summary"}
DuckErr == "duckduckgo: request failed"

\* fmt.Sprintf of the two results.  The Go literal is the Chinese text
\* "\u7f51\u7edc\u641c\u7d22\u7ed3\u679c:\n%s\n\n\u7ef4\u57fa\u767e\u79d1\u7ed3\u679c:\n%s",
\* written here with its escapes.
WebHeader == "\\u7f51\\u7edc\\u641c\\u7d22\\u7ed3\\u679c:\n"
WikiHeader == "\n\n\\u7ef4\\u57fa\\u767e\\u79d1\\u7ed3\\u679c:\n"
Combined(web, wiki) == WebHeader \o web \o WikiHeader \o wiki

\* One entry of calls: the function called, its argument, and whether it
\* returned without an error.
Call(fn, arg, ok) == [fn |-> fn, arg |-> arg, ok |-> ok]

\* The entry of a call of ReviewSearchResults: the results it was shown, and
\* the (wantMore, err) it returned.
ReviewCall(shown, ok, wantMore) ==
    [fn |-> "ReviewSearchResults", arg |-> shown, ok |-> ok, wantMore |-> wantMore]

\* The call of s.interactionHandler.Log on entry, if there is a handler.
LogStart == IF hasHandler THEN <<Call("Log", "start", TRUE)>> ELSE <<>>

\* A mutant of the primary's failure that gives up without the fallback.
TavilyFailsNoFallback ==
    /\ spc = "tavily"
    /\ calls' = calls \o LogStart \o <<Call("TavilySearch", Query(task), FALSE)>>
    /\ result' = [taskType |-> "SEARCH", success |-> FALSE, output |-> "",
                  error |-> "tavily: missing API key", query |-> ""]
    /\ spc' = "done"
    /\ UNCHANGED <<task, hasHandler, searchResult>>

\* Execute is entered: the first Log, the query, and tool.TavilySearch fails.
TavilyFails ==
    /\ spc = "tavily"
    /\ calls' = calls \o LogStart \o <<Call("TavilySearch", Query(task), FALSE)>>
    /\ spc' = "ddg"
    /\ UNCHANGED <<task, hasHandler, searchResult, result>>

\* Execute is entered and tool.TavilySearch returns results.
TavilySucceeds ==
    /\ spc = "tavily"
    /\ \E text \in TavilyTexts : searchResult' = text
    /\ calls' = calls \o LogStart \o <<Call("TavilySearch", Query(task), TRUE)>>
    /\ spc' = IF hasHandler THEN "review" ELSE "wiki"
    /\ UNCHANGED <<task, hasHandler, result>>

\* A mutant of the fallback's failure that goes on to Wikipedia with no web
\* result.
DuckDuckGoFailsGoesOn ==
    /\ spc = "ddg"
    /\ calls' = Append(calls, Call("DuckDuckGoSearch", Query(task), FALSE))
    /\ spc' = "wiki"
    /\ UNCHANGED <<task, hasHandler, searchResult, result>>

\* The fallback tool.DuckDuckGoSearch fails too: Execute returns the failure.
DuckDuckGoFails ==
    /\ spc = "ddg"
    /\ calls' = Append(calls, Call("DuckDuckGoSearch", Query(task), FALSE))
    /\ result' = [taskType |-> "SEARCH", success |-> FALSE, output |-> "",
                  error |-> DuckErr, query |-> ""]
    /\ spc' = "done"
    /\ UNCHANGED <<task, hasHandler, searchResult>>

\* The fallback tool.DuckDuckGoSearch returns results.
DuckDuckGoSucceeds ==
    /\ spc = "ddg"
    /\ \E text \in DuckTexts : searchResult' = text
    /\ calls' = Append(calls, Call("DuckDuckGoSearch", Query(task), TRUE))
    /\ spc' = "wiki"
    /\ UNCHANGED <<task, hasHandler, result>>

\* s.interactionHandler.ReviewSearchResults(searchResult) returns (wantMore, err).
ReviewSearchResults ==
    /\ spc = "review"
    /\ \E wantMore \in BOOLEAN, reviewOK \in BOOLEAN :
          /\ calls' = Append(calls, ReviewCall(searchResult, reviewOK, wantMore))
          /\ spc' = IF reviewOK /\ wantMore THEN "more" ELSE "wiki"
    /\ UNCHANGED <<task, hasHandler, searchResult, result>>

\* A mutant of the higher-limit search that loses the original results when
\* it fails.
TavilySearchWithLimitDropsOriginals ==
    /\ spc = "more"
    /\ \/ /\ \E text \in MoreTexts : searchResult' = text
          /\ calls' = Append(calls, Call("TavilySearchWithLimit", Query(task), TRUE))
       \/ /\ searchResult' = ""
          /\ calls' = Append(calls, Call("TavilySearchWithLimit", Query(task), FALSE))
    /\ spc' = "wiki"
    /\ UNCHANGED <<task, hasHandler, result>>

\* tool.TavilySearchWithLimit(query, 50) returns, with results or an error.
TavilySearchWithLimit ==
    /\ spc = "more"
    /\ \/ /\ \E text \in MoreTexts : searchResult' = text
          /\ calls' = Append(calls, Call("TavilySearchWithLimit", Query(task), TRUE))
       \/ /\ UNCHANGED searchResult
          /\ calls' = Append(calls, Call("TavilySearchWithLimit", Query(task), FALSE))
    /\ spc' = "wiki"
    /\ UNCHANGED <<task, hasHandler, result>>

\* tool.WikipediaSearch(query) returns, and Execute returns its Result.
\* WikipediaSearch that drops the web text when Wikipedia answers.
WikipediaSearchReplacesWeb ==
    /\ spc = "wiki"
    /\ \E wikiOK \in BOOLEAN, wikiResult \in WikiTexts :
          LET output == IF wikiOK /\ wikiResult # "" THEN wikiResult ELSE searchResult
          IN  /\ wikiOK \/ wikiResult = ""
              /\ searchResult' = output
              /\ result' = [taskType |-> "SEARCH", success |-> TRUE, output |-> output,
                            error |-> "", query |-> Query(task)]
              /\ calls' = calls \o <<[fn |-> "WikipediaSearch", arg |-> Query(task),
                                       ok |-> wikiOK, text |-> wikiResult]>>
                                \o (IF hasHandler
                                    THEN <<[fn |-> "Log", arg |-> "retrieved", ok |-> TRUE]>>
                                    ELSE <<>>)
    /\ spc' = "done"
    /\ UNCHANGED <<task, hasHandler>>

\* The call tool.WikipediaSearch(query), with what it returned: `text` is
\* wikiResult, `ok` is err == nil.
WikiCall(arg, ok, text) ==
    [fn |-> "WikipediaSearch", arg |-> arg, ok |-> ok, text |-> text]

WikipediaSearch ==
    /\ spc = "wiki"
    /\ \E wikiOK \in BOOLEAN, wikiResult \in WikiTexts :
          LET output == IF wikiOK /\ wikiResult # ""
                        THEN Combined(searchResult, wikiResult)
                        ELSE searchResult
          IN  /\ wikiOK \/ wikiResult = ""
              /\ searchResult' = output
              /\ result' = [taskType |-> "SEARCH", success |-> TRUE, output |-> output,
                            error |-> "", query |-> Query(task)]
              /\ calls' = calls \o <<WikiCall(Query(task), wikiOK, wikiResult)>>
                                \o (IF hasHandler THEN <<Call("Log", "retrieved", TRUE)>>
                                    ELSE <<>>)
    /\ spc' = "done"
    /\ UNCHANGED <<task, hasHandler>>

\* The caller cancels ctx while Execute is at one of its calls.  Execute
\* passes ctx to none of them (tool.TavilySearch(query), DuckDuckGoSearch(query),
\* ReviewSearchResults(searchResult), TavilySearchWithLimit(query, 50),
\* WikipediaSearch(query)) and never reads it: nothing of Execute changes.
ContextCancelled ==
    /\ spc \in {"tavily", "ddg", "review", "more", "wiki"}
    /\ ~cancelled
    /\ cancelled' = TRUE
    /\ UNCHANGED <<searchVars, runnerVars, managerVars, runVars>>
    /\ UNCHANGED <<toolVars, subagentVars, uiVars>>
    /\ UNCHANGED <<opc, review, registered, plan, taskIdx, malformed, replans, events>>
    /\ UNCHANGED <<results, context, replies>>

InitSearch ==
    /\ spc = "tavily"
    /\ task \in SearchTasks
    /\ hasHandler \in BOOLEAN
    /\ searchResult = ""
    /\ result = NoResult
    /\ calls = <<>>

IdleRunner ==
    /\ autoApprove = FALSE
    /\ pc = "idle"
    /\ i = 0
    /\ messages = <<>>
    /\ tcIdx = 0
    /\ finalOutput = ""
    /\ retErr = ""
    /\ nextID = 1
    /\ trace = <<>>
    /\ odd = 0

NextSearch ==
    \/ (TavilyFails /\ UNCHANGED othersOfSearch)
    \/ (TavilySucceeds /\ UNCHANGED othersOfSearch)
    \/ (DuckDuckGoFails /\ UNCHANGED othersOfSearch)
    \/ (DuckDuckGoSucceeds /\ UNCHANGED othersOfSearch)
    \/ (ReviewSearchResults /\ UNCHANGED othersOfSearch)
    \/ (TavilySearchWithLimit /\ UNCHANGED othersOfSearch)
    \/ (WikipediaSearch /\ UNCHANGED othersOfSearch)
    \/ ContextCancelled

SearchAlone ==
    /\ InitSearch /\ IdleRunner /\ IdleSession /\ IdleManager /\ IdleRun
    /\ IdleTool /\ IdleSubagents /\ IdleUI

SpecSearch == SearchAlone /\ [][NextSearch]_vars

-----------------------------------------------------------------------------
(* Claims about SearchSubagent.Execute.                                    *)

CallIdxs(fn) == {k \in 1..Len(calls) : calls[k].fn = fn}
FailedCallIdxs(fn) == {k \in CallIdxs(fn) : ~calls[k].ok}

\* The texts that may stand before and after a back-end's text in the output.
Prefixes == {"", WebHeader}
Suffixes == {""} \cup {WikiHeader \o w : w \in WikiTexts}
Contains(s, t) == \E pre \in Prefixes, post \in Suffixes : s = pre \o t \o post

\* C9: Execute calls DuckDuckGo at most once, and only after a Tavily call
\* that returned an error; once it has returned, DuckDuckGo was called if and
\* only if Tavily returned an error, success is false only when both failed
\* (the error is then DuckDuckGo's), and a Result after a failed Tavily call
\* and a DuckDuckGo call that answered has success = true and an output that
\* contains DuckDuckGo's text.
C9_FallbackOnlyOnPrimaryError ==
    /\ Cardinality(CallIdxs("DuckDuckGoSearch")) <= 1
    /\ Cardinality(CallIdxs("TavilySearch")) <= 1
    /\ \A d \in CallIdxs("DuckDuckGoSearch") :
          \E t \in FailedCallIdxs("TavilySearch") : t < d
    /\ spc = "done" =>
          /\ Cardinality(CallIdxs("TavilySearch")) = 1
          /\ CallIdxs("DuckDuckGoSearch") # {} <=> FailedCallIdxs("TavilySearch") # {}
          /\ ~result.success <=>
                /\ FailedCallIdxs("TavilySearch") # {}
                /\ FailedCallIdxs("DuckDuckGoSearch") # {}
          /\ ~result.success => result.error = DuckErr /\ result.output = ""
          /\ (FailedCallIdxs("TavilySearch") # {} /\ FailedCallIdxs("DuckDuckGoSearch") = {}) =>
                /\ result.success
                /\ result.error = ""
                /\ \E text \in DuckTexts : Contains(result.output, text)
                /\ \A text \in TavilyTexts \cup MoreTexts : ~Contains(result.output, text)

\* C9 witness: Tavily failed, DuckDuckGo answered, and Execute returned
\* success with DuckDuckGo's text under the web header.
C9_Witness ==
    /\ spc = "done"
    /\ result.success
    /\ FailedCallIdxs("TavilySearch") # {}
    /\ result.output = Combined("DDG-OK", "wiki summary")

WebSuccessIdxs ==
    {k \in 1..Len(calls) :
        calls[k].fn \in {"TavilySearch", "DuckDuckGoSearch"} /\ calls[k].ok}

ReviewIdxs == CallIdxs("ReviewSearchResults")
MoreIdxs == CallIdxs("TavilySearchWithLimit")

\* C11: ReviewSearchResults is called at most once, only with a handler and
\* directly after a TavilySearch that succeeded, and it is shown that search's
\* results; the higher-limit search is called at most once, directly after a
\* review that answered "more" without an error; once Execute has returned,
\* the review was called if and only if the primary search succeeded and a
\* handler is present, the higher-limit search ran if and only if the review
\* answered "more", and the output holds the higher-limit results (and not the
\* originals) when that search succeeded and the originals when it failed.
C11_ReviewAndMoreResults ==
    /\ Cardinality(ReviewIdxs) <= 1
    /\ Cardinality(MoreIdxs) <= 1
    /\ \A r \in ReviewIdxs :
          /\ hasHandler
          /\ r > 1
          /\ calls[r - 1].fn = "TavilySearch" /\ calls[r - 1].ok
          /\ calls[r].arg \in TavilyTexts
    /\ \A m \in MoreIdxs :
          /\ m > 1
          /\ m - 1 \in ReviewIdxs
          /\ calls[m - 1].ok /\ calls[m - 1].wantMore
          /\ calls[m].arg = Query(task)
          /\ spc \in {"wiki", "done"}
          /\ spc = "wiki" =>
                IF calls[m].ok THEN searchResult \in MoreTexts
                ELSE searchResult = calls[m - 1].arg
    /\ spc \in {"wiki", "done"} =>
          \A r \in ReviewIdxs :
              (calls[r].ok /\ calls[r].wantMore) => r + 1 \in MoreIdxs
    /\ spc = "done" =>
          /\ ReviewIdxs # {} <=>
                (hasHandler /\ CallIdxs("TavilySearch") \ FailedCallIdxs("TavilySearch") # {})
          /\ \A m \in MoreIdxs :
                IF calls[m].ok
                THEN /\ \E text \in MoreTexts : Contains(result.output, text)
                     /\ \A text \in TavilyTexts : ~Contains(result.output, text)
                ELSE /\ Contains(result.output, calls[m - 1].arg)
                     /\ result.success

\* C11 witness: the review answered "more", the higher-limit search failed,
\* and Execute returned the original results.
C11_Witness ==
    /\ spc = "done"
    /\ \E m \in MoreIdxs : ~calls[m].ok /\ Contains(result.output, calls[m - 1].arg)

\* The review answered "more" and the higher-limit results replaced the
\* originals.
C11_ReplacedReached ==
    /\ spc = "done"
    /\ \E m \in MoreIdxs : calls[m].ok /\ result.output = Combined("tavily 50 results", "wiki summary")

\* C12 (as stated, for the search subagent): when the cancellation token has
\* fired while Execute was at a back-end call or at the handler's review,
\* Execute ends with an error: it never returns a successful Result.
C12_CancellationEndsInError ==
    (cancelled /\ spc = "done") => ~result.success

-----------------------------------------------------------------------------
(* One session: planner, plan review gate and orchestrator.  Their code is *)
(* not among the sources; they are modelled from the design (sections 4.C, *)
(* 4.D, 4.E, 5, 6 and 7).                                                  *)

TaskTypes == {"SEARCH", "ANALYZE", "REPORT", "RENDER"}

\* The plans the planner returns: 1..MaxTasks tasks of known types.
Plans == SeqsUpTo(TaskTypes, MaxTasks) \ {<<>>}

\* The plans the planner returns when it is re-invoked with a modification
\* instruction: the plan as it was, or that plan with one more task.
Revisions(p) ==
    {q \in Plans : q = p \/ (Len(q) = Len(p) + 1 /\ SubSeq(q, 1, Len(p)) = p)}

\* An event of the outbound channel.
Ev(type, content) == [type |-> type, content |-> content]
Terminal(e) == e.type \in {"done", "error"}

\* plan_review { plan }.
PlanReview(p) == [type |-> "plan_review", content |-> "", plan |-> p]

\* The log line of step 1 of a task: "step" stands for the marker, followed
\* by "{i+1}/{n}: [{type}]".
StepLog(idx, n, type) ==
    [type |-> "log", content |-> "step", step |-> idx + 1, of |-> n, taskType |-> type]

\* What a subagent puts out.
Outputs == {"# Olympic Games", "notes"}

\* The Result of a task that succeeded.
Success(type, output) == [taskType |-> type, success |-> TRUE, output |-> output]

\* A mutant of the formatting that leaves the header out.
FormatOutputBare(r) == r.output

\* The entry of parameters.context for a Result: its output under the header
\* "Output from {TYPE} task:\n".
FormatOutput(r) == "Output from " \o r.taskType \o " task:\n" \o r.output

\* Step 2: the formatted outputs of the tasks before the current one.
ContextOf(rs) == [k \in 1..Len(rs) |-> FormatOutput(rs[k])]

\* The planner returns a valid plan: it is logged and, under review, sent to
\* the reviewer.
PlannerReturnsPlan ==
    /\ opc = "planning"
    /\ \E p \in (IF replies = <<>> THEN Plans ELSE Revisions(plan)) :
          /\ plan' = p
          /\ events' = events \o <<Ev("log", "plan")>>
                              \o (IF review THEN <<PlanReview(p)>> ELSE <<>>)
    /\ taskIdx' = 0
    /\ malformed' = 0
    /\ opc' = IF review THEN "review" ELSE "run"
    /\ UNCHANGED <<review, registered, replans, cancelled>>
    /\ UNCHANGED <<results, context, replies>>

\* The planner's output is malformed: it is asked again once, and a second
\* malformed output fails the session.
PlannerMalformed ==
    /\ opc = "planning"
    /\ IF malformed = 0
       THEN /\ malformed' = 1
            /\ UNCHANGED <<opc, events>>
       ELSE /\ events' = Append(events, Ev("error", "malformed plan"))
            /\ opc' = "closed"
            /\ UNCHANGED malformed
    /\ UNCHANGED <<review, registered, plan, taskIdx, replans, cancelled>>
    /\ UNCHANGED <<results, context, replies>>

\* A mutant of the review gate that takes any reply for an approval.
ReviewReplyAlwaysApproves ==
    /\ opc = "review"
    /\ \E reply \in {"", "Add a security comparison."} :
          /\ replies' = Append(replies, reply)
          /\ reply # "" => replans < MaxReplans
          /\ replans' = IF reply = "" THEN replans ELSE replans + 1
          /\ opc' = "run"
    /\ UNCHANGED <<review, registered, plan, taskIdx, malformed, cancelled, events>>
    /\ UNCHANGED <<results, context>>

\* The reviewer's reply arrives on the response channel: the empty reply
\* approves the plan, any other is an instruction for a new plan.
ReviewReply ==
    /\ opc = "review"
    /\ \E reply \in {"", "Add a security comparison."} :
          /\ replies' = Append(replies, reply)
          /\ IF reply = ""
             THEN /\ opc' = "run"
                  /\ UNCHANGED replans
             ELSE /\ replans < MaxReplans
                  /\ replans' = replans + 1
                  /\ opc' = "planning"
    /\ UNCHANGED <<review, registered, plan, taskIdx, malformed, cancelled, events>>
    /\ UNCHANGED <<results, context>>

\* Steps 1 to 4 of a task: the step marker is logged and the subagent is
\* selected; a type with no subagent ends the session with an error.
StartTask ==
    /\ opc = "run"
    /\ taskIdx < Len(plan)
    /\ context' = ContextOf(results)
    /\ LET step == StepLog(taskIdx, Len(plan), plan[taskIdx + 1])
       IN  IF plan[taskIdx + 1] \in registered
           THEN /\ events' = Append(events, step)
                /\ opc' = "exec"
           ELSE /\ events' = events \o <<step, Ev("error", "unknown task type")>>
                /\ opc' = "closed"
    /\ UNCHANGED <<review, registered, plan, taskIdx, malformed, replans, cancelled>>
    /\ UNCHANGED <<results, replies>>

\* What the orchestrator emits once the last task is done.
Finish == <<Ev("response", "report"), Ev("done", "")>>

\* A mutant of the succeeding task that does not log the completion.
TaskSucceedsUnlogged ==
    /\ opc = "exec"
    /\ taskIdx' = taskIdx + 1
    /\ \E output \in Outputs :
          results' = Append(results, Success(plan[taskIdx + 1], output))
    /\ IF taskIdx + 1 = Len(plan)
       THEN /\ events' = events \o Finish
            /\ opc' = "closed"
       ELSE /\ events' = events
            /\ opc' = "run"
    /\ UNCHANGED <<review, registered, plan, malformed, replans, cancelled>>
    /\ UNCHANGED <<context, replies>>

\* Steps 5 and 6 of a task that succeeds; after the last task the response
\* and the done marker are emitted.
TaskSucceeds ==
    /\ opc = "exec"
    /\ taskIdx' = taskIdx + 1
    /\ \E output \in Outputs :
          results' = Append(results, Success(plan[taskIdx + 1], output))
    /\ IF taskIdx + 1 = Len(plan)
       THEN /\ events' = events \o <<Ev("log", "completed")>> \o Finish
            /\ opc' = "closed"
       ELSE /\ events' = Append(events, Ev("log", "completed"))
            /\ opc' = "run"
    /\ UNCHANGED <<review, registered, plan, malformed, replans, cancelled>>
    /\ UNCHANGED <<context, replies>>

\* A mutant of the failing task that goes on with the plan after the error.
TaskFailsGoesOn ==
    /\ opc = "exec"
    /\ events' = events \o <<Ev("log", "failed"), Ev("error", "subagent error")>>
    /\ taskIdx' = taskIdx + 1
    /\ opc' = IF taskIdx + 1 = Len(plan) THEN "closed" ELSE "run"
    /\ UNCHANGED <<review, registered, plan, malformed, replans, cancelled>>
    /\ UNCHANGED <<results, context, replies>>

\* Step 5 of a task that fails: the failure is logged and the session ends
\* with an error.
TaskFails ==
    /\ opc = "exec"
    /\ events' = events \o <<Ev("log", "failed"), Ev("error", "subagent error")>>
    /\ opc' = "closed"
    /\ UNCHANGED <<review, registered, plan, taskIdx, malformed, replans, cancelled>>
    /\ UNCHANGED <<results, context, replies>>

\* cancel(id): the cancellation token fires.
Cancel ==
    /\ opc \notin {"idle", "closed"}
    /\ ~cancelled
    /\ cancelled' = TRUE
    /\ UNCHANGED <<opc, review, registered, plan, taskIdx, malformed, replans, events>>
    /\ UNCHANGED <<results, context, replies>>

\* The orchestrator observes the token at a suspension point (the planner's
\* LLM call, the wait for the reviewer, a subagent's call) and ends the
\* session with a terminal error.
CancelObserved ==
    /\ cancelled
    /\ opc \in {"planning", "review", "exec"}
    /\ events' = Append(events, Ev("error", "context canceled"))
    /\ opc' = "closed"
    /\ UNCHANGED <<review, registered, plan, taskIdx, malformed, replans, cancelled>>
    /\ UNCHANGED <<results, context, replies>>

\* The cancelled session ends with nothing emitted ("cancelled" is a terminal
\* state that is observed but not emitted; the transport closes silently).
CancelSilent ==
    /\ cancelled
    /\ opc \in {"planning", "review", "run", "exec"}
    /\ opc' = "closed"
    /\ UNCHANGED <<review, registered, plan, taskIdx, malformed, replans, cancelled, events>>
    /\ UNCHANGED <<results, context, replies>>

InitSession ==
    /\ opc = "planning"
    /\ review \in BOOLEAN
    /\ registered \in {TaskTypes, TaskTypes \ {"RENDER"}}
    /\ plan = <<>>
    /\ taskIdx = 0
    /\ malformed = 0
    /\ replans = 0
    /\ cancelled = FALSE
    /\ events = <<>>
    /\ results = <<>>
    /\ context = <<>>
    /\ replies = <<>>

NextSession ==
    \/ (PlannerReturnsPlan /\ UNCHANGED othersOfSession)
    \/ (PlannerMalformed /\ UNCHANGED othersOfSession)
    \/ (ReviewReply /\ UNCHANGED othersOfSession)
    \/ (StartTask /\ UNCHANGED othersOfSession)
    \/ (TaskSucceeds /\ UNCHANGED othersOfSession)
    \/ (TaskFails /\ UNCHANGED othersOfSession)
    \/ (Cancel /\ UNCHANGED othersOfSession)
    \/ (CancelObserved /\ UNCHANGED othersOfSession)
    \/ (CancelSilent /\ UNCHANGED othersOfSession)

SessionAlone ==
    /\ InitSession /\ IdleRunner /\ IdleSearch /\ IdleManager /\ IdleRun
    /\ IdleTool /\ IdleSubagents /\ IdleUI

SpecSession == SessionAlone /\ [][NextSession]_vars

-----------------------------------------------------------------------------
(* Claims about the session's events.                                      *)

TerminalIdxs == {k \in 1..Len(events) : Terminal(events[k])}

LogIdxs(marker) ==
    {k \in 1..Len(events) : events[k].type = "log" /\ events[k].content = marker}
Started == Cardinality(LogIdxs("step"))
Ended == Cardinality(LogIdxs("completed")) + Cardinality(LogIdxs("failed"))

UnmarkedEnds == {Ev("error", "unknown task type"), Ev("error", "context canceled")}

C13_UnknownTypeReached ==
    /\ opc = "closed"
    /\ ~cancelled
    /\ Started = Ended + 1
    /\ events # <<>>
    /\ events[Len(events)] = Ev("error", "unknown task type")

PlanReviewIdxs == {k \in 1..Len(events) : events[k].type = "plan_review"}
LastPlanReview == CHOOSE k \in PlanReviewIdxs : \A j \in PlanReviewIdxs : j <= k
Modifications == {k \in 1..Len(replies) : replies[k] # ""}

\* C15: under review, while the orchestrator waits at the gate the last
\* event is the plan_review of the current plan, and every reply so far was a
\* modification, each answered by one more plan_review; tasks execute only
\* after an empty reply, which is the last reply, with the plan of the last
\* plan_review: every step marker comes after every plan_review and names the
\* task of that plan at its position; without review there is neither a
\* plan_review nor a reply.
C15_PlanReviewGate ==
    /\ ~review => PlanReviewIdxs = {} /\ replies = <<>>
    /\ opc = "review" =>
          /\ review
          /\ events # <<>>
          /\ events[Len(events)] = PlanReview(plan)
          /\ Modifications = 1..Len(replies)
          /\ Cardinality(PlanReviewIdxs) = Len(replies) + 1
          /\ LogIdxs("step") = {}
    /\ (review /\ opc = "planning") =>
          /\ Modifications = 1..Len(replies)
          /\ Cardinality(PlanReviewIdxs) = Len(replies)
          /\ LogIdxs("step") = {}
    /\ (review /\ (opc \in {"run", "exec"} \/ LogIdxs("step") # {})) =>
          /\ replies # <<>>
          /\ replies[Len(replies)] = ""
          /\ Modifications = 1..(Len(replies) - 1)
          /\ Cardinality(PlanReviewIdxs) = Len(replies)
          /\ events[LastPlanReview].plan = plan
          /\ \A k \in LogIdxs("step") :
                /\ k > LastPlanReview
                /\ events[k].step \in 1..Len(plan)
                /\ events[k].of = Len(plan)
                /\ events[k].taskType = plan[events[k].step]
    /\ Cardinality(Modifications) = replans

\* C15: a reply at the gate changes neither the plan nor the events; the
\* empty reply lets the tasks run, any other reply sends the orchestrator
\* back to the planner.
C15_ReplyStep ==
    [][(opc = "review" /\ Len(replies') = Len(replies) + 1) =>
          /\ plan' = plan
          /\ events' = events
          /\ opc' = IF replies'[Len(replies')] = "" THEN "run" ELSE "planning"]_vars

\* C15 witness: after a modification and a second plan_review with another
\* plan, the empty reply approved that plan and its first task has started.
C15_Witness ==
    /\ review
    /\ opc = "exec"
    /\ replies = <<"Add a security comparison.", "">>
    /\ Cardinality(PlanReviewIdxs) = 2
    /\ \E k \in PlanReviewIdxs : events[k].plan # plan
    /\ events[Len(events)] = StepLog(0, Len(plan), plan[1])

-----------------------------------------------------------------------------
(* The session manager with concurrently running sessions.  Its code is    *)
(* not among the sources; it is modelled from the design (sections 3, 4.E  *)
(* and 5).  The orchestrator of a session is the only writer of its event  *)
(* channel and the transport its only reader.                              *)

\* An event on a channel, with the session whose orchestrator produced it.
SessionEvent(o, type) == [session |-> o[1], gen |-> o[2], type |-> type]

\* The events an orchestrator has produced so far, wherever they are.
Produced(o) ==
    LET On(q) == Cardinality({k \in 1..Len(q) : q[k].session = o[1] /\ q[k].gen = o[2]})
        RECURSIVE Sum(_)
        Sum(ids) == IF ids = {} THEN 0
                    ELSE LET id == CHOOSE x \in ids : TRUE
                         IN  On(channel[id]) + On(stream[id]) + Sum(ids \ {id})
    IN  Sum(SessionIds)

\* A mutant of start that replaces a running session at once, without firing
\* its token and draining its channel.
StartSessionReplacesAtOnce(id) ==
    /\ table[id].gen < MaxGenerations
    /\ table' = [table EXCEPT ![id] = [gen |-> @.gen + 1, status |-> "running", token |-> FALSE]]
    /\ orchs' = orchs \cup {<<id, table[id].gen + 1>>}
    /\ channel' = channel
    /\ UNCHANGED stream

\* start(id, request) for an id with no session, or with one that has ended
\* and whose channel is drained: a new Session is registered, its channels
\* are allocated and its orchestrator starts.  (For an id whose session is
\* running start is idempotent: nothing changes.)
StartSession(id) ==
    /\ table[id].status \in {"none", "drained"}
    /\ table[id].gen < MaxGenerations
    /\ table' = [table EXCEPT ![id] = [gen |-> @.gen + 1, status |-> "running", token |-> FALSE]]
    /\ orchs' = orchs \cup {<<id, table[id].gen + 1>>}
    /\ channel' = [channel EXCEPT ![id] = <<>>]
    /\ UNCHANGED stream

\* A mutant of the orchestrator's emit that writes to every channel.
EmitBroadcast(o) ==
    /\ o \in orchs
    /\ Produced(o) < MaxEvents
    /\ channel' = [id \in SessionIds |-> Append(channel[id], SessionEvent(o, "log"))]
    /\ UNCHANGED <<table, orchs, stream>>

\* The orchestrator of a session emits a log event on its session's channel.
Emit(o) ==
    /\ o \in orchs
    /\ Produced(o) < MaxEvents
    /\ channel' = [channel EXCEPT ![o[1]] = Append(@, SessionEvent(o, "log"))]
    /\ UNCHANGED <<table, orchs, stream>>

\* The orchestrator of a session emits its terminal event and stops: error
\* when its token has fired, done or error otherwise.
Terminate(o) ==
    /\ o \in orchs
    /\ \E type \in (IF table[o[1]].token THEN {"error"} ELSE {"done", "error"}) :
          channel' = [channel EXCEPT ![o[1]] = Append(@, SessionEvent(o, type))]
    /\ orchs' = orchs \ {o}
    /\ table' = [table EXCEPT ![o[1]] =
                    IF @.gen = o[2] THEN [@ EXCEPT !.status = "terminal"] ELSE @]
    /\ UNCHANGED stream

\* cancel(id): the token of the session registered under id fires.
CancelSession(id) ==
    /\ table[id].status = "running"
    /\ ~table[id].token
    /\ table' = [table EXCEPT ![id].token = TRUE]
    /\ UNCHANGED <<orchs, channel, stream>>

\* The transport reads the next event of a channel and sends it to the client
\* that subscribed with the session id.
Forward(id) ==
    /\ channel[id] # <<>>
    /\ stream' = [stream EXCEPT ![id] = Append(@, Head(channel[id]))]
    /\ channel' = [channel EXCEPT ![id] = Tail(@)]
    /\ UNCHANGED <<table, orchs>>

\* drain(id): the channel is closed once the terminal event has been emitted
\* and read.
Drain(id) ==
    /\ table[id].status = "terminal"
    /\ channel[id] = <<>>
    /\ table' = [table EXCEPT ![id].status = "drained"]
    /\ UNCHANGED <<orchs, channel, stream>>

Orchestrators == SessionIds \X (1..MaxGenerations)

NextManager ==
    \/ \E id \in SessionIds : (StartSession(id) /\ UNCHANGED othersOfManager)
    \/ \E o \in Orchestrators : (Emit(o) /\ UNCHANGED othersOfManager)
    \/ \E o \in Orchestrators : (Terminate(o) /\ UNCHANGED othersOfManager)
    \/ \E id \in SessionIds : (CancelSession(id) /\ UNCHANGED othersOfManager)
    \/ \E id \in SessionIds : (Forward(id) /\ UNCHANGED othersOfManager)
    \/ \E id \in SessionIds : (Drain(id) /\ UNCHANGED othersOfManager)

ManagerAlone ==
    /\ IdleManager /\ IdleRunner /\ IdleSearch /\ IdleSession /\ IdleRun
    /\ IdleTool /\ IdleSubagents /\ IdleUI

SpecManager == ManagerAlone /\ [][NextManager]_vars

-----------------------------------------------------------------------------
(* Claims about concurrently running sessions.                             *)

\* C16: every event on the channel of a session id, and every event sent to
\* the client subscribed with that id, was produced by a session of that id;
\* the events on the channel are those of the session now registered under
\* the id, never of the one it replaced; at most one orchestrator runs per
\* id, the one of the registered session.
C16_SessionIsolation ==
    \A id \in SessionIds :
        /\ \A k \in 1..Len(channel[id]) :
              /\ channel[id][k].session = id
              /\ channel[id][k].gen = table[id].gen
        /\ \A k \in 1..Len(stream[id]) : stream[id][k].session = id
        /\ \A k \in 1..Len(stream[id]), j \in 1..Len(stream[id]) :
              k < j => stream[id][k].gen <= stream[id][j].gen
        /\ \A o \in orchs :
              o[1] = id => (o[2] = table[id].gen /\ table[id].status = "running")

\* C16 witness: both sessions are running at once and each has an event of
\* its own on its channel or with its client, the client of A already
\* holding one while B's is still on the channel.
C16_Witness ==
    /\ orchs = {<<"A", 1>>, <<"B", 1>>}
    /\ stream["A"] = <<SessionEvent(<<"A", 1>>, "log")>>
    /\ channel["B"] = <<SessionEvent(<<"B", 1>>, "log")>>

-----------------------------------------------------------------------------
(* Run: discovery, selection and the hand-over to the execution loop.      *)

\* An entry of the slice ParseSkillPackages returns: a *SkillPackage or nil.
Pkg(name, path) == [isNil |-> FALSE, name |-> name, path |-> path]
NilPkg == [isNil |-> TRUE, name |-> "", path |-> ""]

\* What ParseSkillPackages finds under the skills root (its code is not
\* among the sources: any slice of packages, nil entries and equal names
\* included, is taken as possible).
PackageChoices ==
    {NilPkg, Pkg("pdf", "/skills/pdf"), Pkg("pdf", "/skills/pdf-copy"),
     Pkg("docx", "/skills/docx")}
PackageLists == SeqsUpTo(PackageChoices, MaxPackages)
ParseErr == "open /skills: no such file or directory"

\* skills[pkg.Meta.Name] = *pkg
Put(m, k, v) == [x \in DOMAIN m \cup {k} |-> IF x = k THEN v ELSE m[x]]

\* The loop of discoverSkills over the packages.
RECURSIVE discoverSkills(_)
discoverSkills(pkgs) ==
    IF pkgs = <<>> THEN NoSkills
    ELSE LET skills == discoverSkills(SubSeq(pkgs, 1, Len(pkgs) - 1))
             pkg == pkgs[Len(pkgs)]
         IN  IF pkg.isNil THEN skills ELSE Put(skills, pkg.name, pkg)

\* strings.Trim(s, cutset), a character at a time.
RECURSIVE TrimLeft(_, _)
TrimLeft(s, cutset) ==
    IF s # "" /\ SubSeq(s, 1, 1) \in cutset
    THEN TrimLeft(SubSeq(s, 2, Len(s)), cutset)
    ELSE s
RECURSIVE TrimRight(_, _)
TrimRight(s, cutset) ==
    IF s # "" /\ SubSeq(s, Len(s), Len(s)) \in cutset
    THEN TrimRight(SubSeq(s, 1, Len(s) - 1), cutset)
    ELSE s
Trim(s, cutset) == TrimRight(TrimLeft(s, cutset), cutset)

\* strings.TrimSpace(s)
WhiteSpace == {" ", "\t", "\n", "\r"}
TrimSpace(s) == Trim(s, WhiteSpace)

\* skillName := strings.TrimSpace(content); skillName = strings.Trim(skillName, "'\"")
Quotes == {"'", "\""}
SkillName(content) == Trim(TrimSpace(content), Quotes)

\* What the LLM answers to the selection request: the name of a skill, known
\* or not, wrapped in whitespace and quotes.
Cores == {"pdf", "docx", "xlsx"}
Layers == {" ", "'", "\""}
RECURSIVE Wraps(_)
Wraps(n) ==
    IF n = 0 THEN {""}
    ELSE LET shorter == Wraps(n - 1)
         IN  shorter \cup {l \o w : l \in Layers, w \in {v \in shorter : Len(v) = n - 1}}

\* fmt.Errorf of the unknown name; the Go literal starts with the warning
\* sign "\u26a0\ufe0f", written here with its escapes.
NonExistent(name) ==
    "\\u26a0\\ufe0f LLM selected a non-existent skill '" \o name \o "'. Aborting"

\* What executeSkillWithTools does for Run: the chat completions and tool
\* invocations it makes, and what it returns.
LoopRuns ==
    {[calls |-> <<"execution chat">>, output |-> "answer A", err |-> ""],
     [calls |-> <<"execution chat", "tool", "execution chat">>, output |-> "answer B", err |-> ""],
     [calls |-> <<"execution chat">>, output |-> "", err |-> "ChatCompletion error: status 500"]}

\* The pre-flight check fails: cfg.APIKey is empty.
PreflightFails ==
    /\ rpc = "start"
    /\ apiKey = ""
    /\ runErr' = "API key is not set"
    /\ rpc' = "failed"
    /\ UNCHANGED <<apiKey, packages, availableSkills, response, selectedSkillName, runOutput, made>>

\* ParseSkillPackages returns an error.
DiscoveryFails ==
    /\ rpc = "start"
    /\ apiKey # ""
    /\ runErr' = "failed to discover skills: " \o ParseErr
    /\ rpc' = "failed"
    /\ UNCHANGED <<apiKey, packages, availableSkills, response, selectedSkillName, runOutput, made>>

\* A mutant of the discovery step that goes on to the selection with no
\* skill.
DiscoverGoesOnWithoutSkills ==
    /\ rpc = "start"
    /\ apiKey # ""
    /\ \E pkgs \in PackageLists :
          /\ packages' = pkgs
          /\ availableSkills' = discoverSkills(pkgs)
    /\ rpc' = "select"
    /\ UNCHANGED <<apiKey, response, selectedSkillName, runOutput, runErr, made>>

\* Step 1: discoverSkills returns the map, and Run fails when it is empty.
Discover ==
    /\ rpc = "start"
    /\ apiKey # ""
    /\ \E pkgs \in PackageLists :
          LET skills == discoverSkills(pkgs)
          IN  /\ packages' = pkgs
              /\ availableSkills' = skills
              /\ IF DOMAIN skills = {}
                 THEN /\ runErr' = "no valid skills found"
                      /\ rpc' = "failed"
                 ELSE /\ rpc' = "select"
                      /\ UNCHANGED runErr
    /\ UNCHANGED <<apiKey, response, selectedSkillName, runOutput, made>>

\* Step 2 when the chat completion of selectSkill returns an error.
SelectionFails ==
    /\ rpc = "select"
    /\ made' = Append(made, "selection chat")
    /\ runErr' = "failed during skill selection: ChatCompletion error: status 500"
    /\ rpc' = "failed"
    /\ UNCHANGED <<apiKey, packages, availableSkills, response, selectedSkillName, runOutput>>

\* A mutant of the selection step that takes the name without looking it up.
SelectWithoutLookup ==
    /\ rpc = "select"
    /\ \E pre \in Wraps(MaxWrap), core \in Cores, post \in Wraps(MaxWrap) :
          /\ response' = Reply(pre, core, post)
          /\ selectedSkillName' = SkillName(pre \o core \o post)
    /\ made' = Append(made, "selection chat")
    /\ rpc' = "execute"
    /\ UNCHANGED <<apiKey, packages, availableSkills, runOutput, runErr>>

\* Step 2: selectSkill returns the trimmed reply, and Run looks the name up
\* in the map.
Select ==
    /\ rpc = "select"
    /\ \E pre \in Wraps(MaxWrap), core \in Cores, post \in Wraps(MaxWrap) :
          LET skillName == SkillName(pre \o core \o post)
          IN  /\ response' = Reply(pre, core, post)
              /\ selectedSkillName' = skillName
              /\ IF skillName \in DOMAIN availableSkills
                 THEN /\ rpc' = "execute"
                      /\ UNCHANGED runErr
                 ELSE /\ runErr' = NonExistent(skillName)
                      /\ rpc' = "failed"
    /\ made' = Append(made, "selection chat")
    /\ UNCHANGED <<apiKey, packages, availableSkills, runOutput>>

\* Step 3: executeSkillWithTools runs and Run returns what it returned.
Execute ==
    /\ rpc = "execute"
    /\ \E run \in LoopRuns :
          /\ made' = made \o run.calls
          /\ IF run.err = ""
             THEN /\ runOutput' = run.output
                  /\ rpc' = "returned"
                  /\ UNCHANGED runErr
             ELSE /\ runErr' = "failed during skill execution: " \o run.err
                  /\ rpc' = "failed"
                  /\ UNCHANGED runOutput
    /\ UNCHANGED <<apiKey, packages, availableSkills, response, selectedSkillName>>

InitRun ==
    /\ rpc = "start"
    /\ apiKey \in {"", "sk-test"}
    /\ packages = <<>>
    /\ availableSkills = NoSkills
    /\ response = Reply("", "", "")
    /\ selectedSkillName = ""
    /\ runOutput = ""
    /\ runErr = ""
    /\ made = <<>>

NextRun ==
    \/ (PreflightFails /\ UNCHANGED othersOfRun)
    \/ (DiscoveryFails /\ UNCHANGED othersOfRun)
    \/ (Discover /\ UNCHANGED othersOfRun)
    \/ (SelectionFails /\ UNCHANGED othersOfRun)
    \/ (Select /\ UNCHANGED othersOfRun)
    \/ (Execute /\ UNCHANGED othersOfRun)

RunAlone ==
    /\ InitRun /\ IdleRunner /\ IdleSearch /\ IdleSession /\ IdleManager
    /\ IdleTool /\ IdleSubagents /\ IdleUI

SpecRun == RunAlone /\ [][NextRun]_vars

-----------------------------------------------------------------------------
(* Claims about Run.                                                       *)

\* selectSkill has returned a name.
Selected == response.core # ""
ExecutionIdxs == {k \in 1..Len(made) : made[k] \in {"execution chat", "tool"}}

\* C17: once selectSkill has returned a name that is not a key of the map of
\* discovered skills, Run has failed with the error that names it, the only
\* request made is the selection's, and nothing is returned; the execution
\* loop is entered, and a chat completion or tool invocation of it made, only
\* with the name of a discovered skill.
C17_UnknownNameFailsBeforeExecution ==
    /\ (Selected /\ selectedSkillName \notin DOMAIN availableSkills) =>
          /\ rpc = "failed"
          /\ runErr = NonExistent(selectedSkillName)
          /\ made = <<"selection chat">>
          /\ runOutput = ""
    /\ (rpc \in {"execute", "returned"} \/ ExecutionIdxs # {}) =>
          /\ Selected
          /\ selectedSkillName \in DOMAIN availableSkills

\* C17 witness: the LLM answered "xlsx" in quotes, no such skill was
\* discovered, and Run failed after the selection request alone.
C17_Witness ==
    /\ rpc = "failed"
    /\ response = Reply("'", "xlsx", "'")
    /\ selectedSkillName = "xlsx"
    /\ DOMAIN availableSkills = {"pdf", "docx"}
    /\ made = <<"selection chat">>

\* C18 as stated: when the LLM's reply is the name of a discovered skill
\* wrapped in whitespace and quotes, in whatever order, selectSkill returns
\* that name.
C18_WrappedNameSelectsSkill ==
    response.core \in DOMAIN availableSkills => selectedSkillName = response.core

\* Two packages of the slice, neither nil, declare the same name.
Collide(pkgs) ==
    \E j \in 1..Len(pkgs), k \in 1..Len(pkgs) :
        /\ j < k
        /\ ~pkgs[j].isNil /\ ~pkgs[k].isNil
        /\ pkgs[j].name = pkgs[k].name

\* C19 as stated: when two of the packages found declare the same name,
\* discovery fails: Run ends with an error and makes no request.
C19_CollisionFailsDiscovery ==
    Collide(packages) => rpc = "failed" /\ made = <<>>

\* discoverSkills has returned without an error.
Discovered == rpc # "start" /\ runErr \notin {"API key is not set", "failed to discover skills: " \o ParseErr}

\* C20: once discovery has returned without an error and with no skill (no
\* package, or nil entries only), Run has failed with "no valid skills found"
\* and has made no request; a request is made only with a skill discovered.
C20_NoSkillsFailsWithoutLLMCall ==
    /\ (Discovered /\ \A k \in 1..Len(packages) : packages[k].isNil) =>
          /\ rpc = "failed"
          /\ runErr = "no valid skills found"
          /\ runOutput = ""
          /\ made = <<>>
    /\ made # <<>> => \E k \in 1..Len(packages) : ~packages[k].isNil

\* C20 witness: ParseSkillPackages returned one nil entry and Run failed
\* with no request made.
C20_Witness ==
    /\ rpc = "failed"
    /\ apiKey # ""
    /\ packages = <<NilPkg>>
    /\ runErr = "no valid skills found"
    /\ made = <<>>


\* ---------------------------------------------------------------------------
\* Search: the output of a successful Execute
\* ---------------------------------------------------------------------------

\* The step of Execute from the Wikipedia call to its return.
WikiStep == spc = "wiki" /\ spc' = "done"

\* The entry of the Wikipedia call in a call log.
WikiOf(cs) == cs[CHOOSE k \in 1..Len(cs) : cs[k].fn = "WikipediaSearch"]

\* All texts a web search can have left in searchResult.
WebTexts == TavilyTexts \cup MoreTexts \cup DuckTexts

\* C25 as stated: the output of Search is the web search text alone when
\* Wikipedia fails or returns the empty text, and otherwise exactly
\* "Web Search Results:\n<web text>\n\nWikipedia Results:\n<wikipedia text>".
C25_OutputWithEnglishHeaders ==
    [][WikiStep =>
         LET w == WikiOf(calls')
         IN  result'.output =
               IF w.ok /\ w.text # ""
               THEN "Web Search Results:\n" \o searchResult
                      \o "\n\nWikipedia Results:\n" \o w.text
               ELSE searchResult]_vars

\* What Execute returns where C25 expects the English headers: the web search
\* text alone when Wikipedia fails or returns the empty text, and otherwise the
\* web text and the Wikipedia text under the two headers of the format string
\* at src/README.md:489, in the order web header, web text, Wikipedia header,
\* Wikipedia text.
C25_OutputWithCodeHeaders ==
    [][WikiStep =>
         LET w == WikiOf(calls')
         IN  /\ result'.success /\ result'.error = ""
             /\ result'.output =
                   IF w.ok /\ w.text # ""
                   THEN "\\u7f51\\u7edc\\u641c\\u7d22\\u7ed3\\u679c:\n" \o searchResult
                          \o "\n\n\\u7ef4\\u57fa\\u767e\\u79d1\\u7ed3\\u679c:\n" \o w.text
                   ELSE searchResult]_vars

\* Execute has returned a combined output: Wikipedia answered a non-empty text.
C25_Witness ==
    /\ spc = "done" /\ result.success
    /\ \E k \in CallIdxs("WikipediaSearch") : calls[k].ok /\ calls[k].text # ""
    /\ \E web \in WebTexts : result.output = Combined(web, "wiki summary")

\* Execute has returned the web text alone: Wikipedia failed or was empty.
C25_WebAloneReached ==
    /\ spc = "done" /\ result.success
    /\ \E k \in CallIdxs("WikipediaSearch") : ~calls[k].ok \/ calls[k].text = ""
    /\ result.output \in WebTexts

-----------------------------------------------------------------------------
(* executeToolCall with the file system and PATH it runs in.               *)

\* strings.HasPrefix(s, prefix) and strings.HasSuffix(s, suffix)
HasPrefix(s, prefix) ==
    Len(s) >= Len(prefix) /\ SubSeq(s, 1, Len(prefix)) = prefix
HasSuffix(s, suffix) ==
    Len(s) >= Len(suffix) /\ SubSeq(s, Len(s) - Len(suffix) + 1, Len(s)) = suffix

\* filepath.IsAbs(path) on a Unix system.
IsAbs(path) == HasPrefix(path, "/")

\* filepath.Clean for the paths of this model: a leading "./" of the relative
\* part is dropped.  The paths have no "..", no doubled and no trailing slash.
Clean(path) ==
    IF HasPrefix(path, "./") THEN SubSeq(path, 3, Len(path)) ELSE path

\* filepath.Join(dir, path) for a non-empty dir
Join(dir, path) == dir \o "/" \o Clean(path)

\* The working directory of the process, and the file a path names.
Cwd == "/work"
Abs(path) == IF IsAbs(path) THEN path ELSE Join(Cwd, path)

\* The skill's root, the files that may exist, and the filePath arguments.
SkillRoot == "/skills/demo"
Files == {"/skills/demo/notes.md", "/work/notes.md", "/abs/notes.md"}
FilePaths == {"notes.md", "./notes.md", "/abs/notes.md"}

\* The scriptPath argument of run_python_script.
ScriptArg == "scripts/helper.py"

\* The script maps GenerateToolDefinitions may have built: tool name -> script
\* path.  The last two declare a script under the name of a built-in tool.
ScriptMaps ==
    { [n \in {"run_helper", "run_build"} |->
          IF n = "run_helper" THEN "/skills/demo/scripts/helper.py"
          ELSE "/skills/demo/scripts/build.sh"],
      [n \in {"run_helper", "run_build"} |->
          IF n = "run_helper" THEN "/skills/demo/scripts/helper.py.bak"
          ELSE "/skills/demo/scripts/build"],
      [n \in {"run_helper", "read_file"} |->
          IF n = "run_helper" THEN "/skills/demo/scripts/helper.PY"
          ELSE "/skills/demo/scripts/read_file.py"],
      [n \in {"run_build", "wikipedia_search"} |->
          IF n = "run_build" THEN "/skills/demo/scripts/build.sh"
          ELSE "/skills/demo/scripts/wikipedia_search.sh"] }

\* The names the LLM calls.
ToolNames ==
    {"read_file", "run_python_script", "run_shell_script", "wikipedia_search",
     "run_helper", "run_build", "no_such_tool"}

\* The filePath or scriptPath a well-formed arguments text ("{}" in ArgTexts)
\* of a call decodes to.
PathsOf(name) ==
    IF name = "read_file" THEN FilePaths
    ELSE IF name = "run_python_script" THEN {ScriptArg}
    ELSE {""}

\* The calls.
ToolCalls ==
    UNION { { [name |-> n, arguments |-> a, path |-> p] : a \in ArgTexts, p \in PathsOf(n) } :
            n \in ToolNames }

\* What a call of executeToolCall may find.
ToolEnvs ==
    { [onPath |-> o, files |-> f, skillPath |-> r, scriptMap |-> m] :
        o \in SUBSET {"python3", "python"}, f \in SUBSET Files,
        r \in {"", SkillRoot}, m \in ScriptMaps }

\* exec.LookPath(file): err == nil exactly when file is on PATH.
LookPath(file, onPath) ==
    [ok |-> file \in onPath, path |-> "/usr/bin/" \o file]

\* An entry of tlog: a function of package tool called with its first
\* argument, a program started with its arguments, or a file opened.
Called(fn, arg) == [op |-> "call", fn |-> fn, arg |-> arg]
ProgramStarted(exe, argv) == [op |-> "exec", exe |-> exe, argv |-> argv]
FileRead(path) == [op |-> "read", path |-> path]

\* tool.RunPythonScript that looks for "python" first.
RunPythonScriptPrefersPython(scriptPath, onPath, runOK) ==
    LET first == LookPath("python", onPath)
        second == LookPath("python3", onPath)
    IN  IF ~first.ok /\ ~second.ok
        THEN [ok |-> FALSE, text |-> "failed to find python3 or python in PATH: not found",
              log |-> <<Called("RunPythonScript", scriptPath)>>]
        ELSE LET pythonExe == IF first.ok THEN first.path ELSE second.path
             IN  [ok |-> runOK,
                  text |-> IF runOK THEN "output of " \o scriptPath ELSE "failed to run",
                  log |-> <<Called("RunPythonScript", scriptPath),
                            ProgramStarted(pythonExe, <<scriptPath>>)>>]

\* tool.RunPythonScript(scriptPath, args): (string, error), and the program
\* it started.  runOK is cmd.Run() returning nil.
RunPythonScript(scriptPath, onPath, runOK) ==
    LET first == LookPath("python3", onPath)
        second == LookPath("python", onPath)
    IN  IF ~first.ok /\ ~second.ok
        THEN [ok |-> FALSE,
              text |-> "failed to find python3 or python in PATH: "
                       \o "exec: \"python\": executable file not found in $PATH",
              log |-> <<Called("RunPythonScript", scriptPath)>>]
        ELSE LET pythonExe == IF first.ok THEN first.path ELSE second.path
             IN  [ok |-> runOK,
                  text |-> IF runOK THEN "output of " \o scriptPath
                           ELSE "failed to run python script '" \o scriptPath
                                \o "' with '" \o pythonExe \o "': " \o BackendErr,
                  log |-> <<Called("RunPythonScript", scriptPath),
                            ProgramStarted(pythonExe, <<scriptPath>>)>>]

\* tool.RunShellScript(scriptPath, args), which is not part of the sources at
\* hand: it starts the script, and fails when the script does.
RunShellScript(scriptPath, runOK) ==
    [ok |-> runOK,
     text |-> IF runOK THEN "output of " \o scriptPath ELSE BackendErr,
     log |-> <<Called("RunShellScript", scriptPath), ProgramStarted("sh", <<scriptPath>>)>>]

\* tool.ReadFile(path): the content of the file, or an error.
ReadFile(path, files) ==
    [ok |-> Abs(path) \in files,
     text |-> IF Abs(path) \in files THEN "content of " \o Abs(path)
              ELSE "open " \o path \o ": no such file or directory",
     log |-> <<Called("ReadFile", path), FileRead(Abs(path))>>]

\* The last lines of executeToolCall: the error of a back-end is wrapped.
Returned(name, r) ==
    [ok |-> r.ok,
     text |-> IF r.ok THEN r.text ELSE "tool execution failed for " \o name \o ": " \o r.text]

\* json.Unmarshal of the arguments of a built-in tool failed.
UnmarshalFailure(name, arguments) ==
    [ok |-> FALSE,
     text |-> "failed to unmarshal " \o name \o " arguments: " \o UnmarshalErr(arguments)]

\* The path read_file would read if it always resolved against the skill root.
ResolvedAlways(filePath, skillPath) ==
    IF ~IsAbs(filePath) /\ skillPath # "" THEN Join(skillPath, filePath) ELSE filePath

\* The path read_file hands to tool.ReadFile.
ResolvedPath(filePath, skillPath, files) ==
    IF ~IsAbs(filePath) /\ skillPath # ""
    THEN LET resolvedPath == Join(skillPath, filePath)
         IN  IF Abs(resolvedPath) \in files THEN resolvedPath ELSE filePath
    ELSE filePath

\* case "read_file" of a switch that looks into scriptMap first.
CaseReadFileAfterScripts ==
    /\ tpc = "call"
    /\ tcall.name = "read_file"
    /\ IF tcall.name \in DOMAIN tenv.scriptMap
       THEN \E runOK \in BOOLEAN :
              LET scriptPath == tenv.scriptMap[tcall.name]
                  r == IF HasSuffix(scriptPath, ".py")
                       THEN RunPythonScript(scriptPath, tenv.onPath, runOK)
                       ELSE RunShellScript(scriptPath, runOK)
              IN  /\ tret' = Returned(tcall.name, r)
                  /\ tlog' = tlog \o r.log
       ELSE IF ~UnmarshalOK(tcall.arguments)
       THEN /\ tret' = UnmarshalFailure(tcall.name, tcall.arguments)
            /\ tlog' = tlog
       ELSE LET path == ResolvedPath(tcall.path, tenv.skillPath, tenv.files)
                r == ReadFile(path, tenv.files)
            IN  /\ tret' = Returned(tcall.name, r)
                /\ tlog' = tlog \o r.log
    /\ tpc' = "done"
    /\ UNCHANGED <<tenv, tcall>>

\* case "read_file"
CaseReadFile ==
    /\ tpc = "call"
    /\ tcall.name = "read_file"
    /\ IF ~UnmarshalOK(tcall.arguments)
       THEN /\ tret' = UnmarshalFailure(tcall.name, tcall.arguments)
            /\ tlog' = tlog
       ELSE LET path == ResolvedPath(tcall.path, tenv.skillPath, tenv.files)
                r == ReadFile(path, tenv.files)
            IN  /\ tret' = Returned(tcall.name, r)
                /\ tlog' = tlog \o r.log
    /\ tpc' = "done"
    /\ UNCHANGED <<tenv, tcall>>

\* case "run_python_script"
CaseRunPythonScript ==
    /\ tpc = "call"
    /\ tcall.name = "run_python_script"
    /\ IF ~UnmarshalOK(tcall.arguments)
       THEN /\ tret' = UnmarshalFailure(tcall.name, tcall.arguments)
            /\ tlog' = tlog
       ELSE \E runOK \in BOOLEAN :
              LET r == RunPythonScript(tcall.path, tenv.onPath, runOK)
              IN  /\ tret' = Returned(tcall.name, r)
                  /\ tlog' = tlog \o r.log
    /\ tpc' = "done"
    /\ UNCHANGED <<tenv, tcall>>

\* The other cases of the switch: each decodes its arguments and calls its
\* back-end.
CaseOtherBuiltin ==
    /\ tpc = "call"
    /\ tcall.name \in BuiltinTools \ {"read_file", "run_python_script"}
    /\ IF ~UnmarshalOK(tcall.arguments)
       THEN /\ tret' = UnmarshalFailure(tcall.name, tcall.arguments)
            /\ tlog' = tlog
       ELSE \E backendOK \in BOOLEAN :
              /\ tret' = Returned(tcall.name,
                                  [ok |-> backendOK,
                                   text |-> IF backendOK THEN BackendOutput(tcall.name)
                                            ELSE BackendErr])
              /\ tlog' = tlog \o <<Called(tcall.name, "")>>
    /\ tpc' = "done"
    /\ UNCHANGED <<tenv, tcall>>

\* default, with a script that is always handed to the shell runner.
CaseScriptAlwaysShell ==
    /\ tpc = "call"
    /\ tcall.name \notin BuiltinTools
    /\ tcall.name \in DOMAIN tenv.scriptMap
    /\ LET scriptPath == tenv.scriptMap[tcall.name]
       IN  IF tcall.arguments # "" /\ ~UnmarshalOK(tcall.arguments)
           THEN /\ tret' = [ok |-> FALSE, text |-> "failed to unmarshal script arguments"]
                /\ tlog' = tlog
           ELSE \E runOK \in BOOLEAN :
                  LET r == RunShellScript(scriptPath, runOK)
                  IN  /\ tret' = Returned(tcall.name, r)
                      /\ tlog' = tlog \o r.log
    /\ tpc' = "done"
    /\ UNCHANGED <<tenv, tcall>>

\* default: the name is in scriptMap
CaseScript ==
    /\ tpc = "call"
    /\ tcall.name \notin BuiltinTools
    /\ tcall.name \in DOMAIN tenv.scriptMap
    /\ LET scriptPath == tenv.scriptMap[tcall.name]
       IN  IF tcall.arguments # "" /\ ~UnmarshalOK(tcall.arguments)
           THEN /\ tret' = [ok |-> FALSE,
                            text |-> "failed to unmarshal script arguments: "
                                     \o UnmarshalErr(tcall.arguments)]
                /\ tlog' = tlog
           ELSE \E runOK \in BOOLEAN :
                  LET r == IF HasSuffix(scriptPath, ".py")
                           THEN RunPythonScript(scriptPath, tenv.onPath, runOK)
                           ELSE RunShellScript(scriptPath, runOK)
                  IN  /\ tret' = Returned(tcall.name, r)
                      /\ tlog' = tlog \o r.log
    /\ tpc' = "done"
    /\ UNCHANGED <<tenv, tcall>>

\* default: the name is not in scriptMap
CaseUnknown ==
    /\ tpc = "call"
    /\ tcall.name \notin BuiltinTools
    /\ tcall.name \notin DOMAIN tenv.scriptMap
    /\ tret' = [ok |-> FALSE, text |-> "unknown tool: " \o tcall.name]
    /\ tpc' = "done"
    /\ UNCHANGED <<tenv, tcall, tlog>>

InitTool ==
    /\ tpc = "call"
    /\ tenv \in ToolEnvs
    /\ tcall \in ToolCalls
    /\ tlog = <<>>
    /\ tret = [ok |-> FALSE, text |-> ""]

NextTool ==
    \/ (CaseReadFile /\ UNCHANGED othersOfTool)
    \/ (CaseRunPythonScript /\ UNCHANGED othersOfTool)
    \/ (CaseOtherBuiltin /\ UNCHANGED othersOfTool)
    \/ (CaseScript /\ UNCHANGED othersOfTool)
    \/ (CaseUnknown /\ UNCHANGED othersOfTool)

ToolAlone ==
    /\ InitTool /\ IdleRunner /\ IdleSearch /\ IdleSession /\ IdleManager /\ IdleRun
    /\ IdleSubagents /\ IdleUI

SpecTool == ToolAlone /\ [][NextTool]_vars

-----------------------------------------------------------------------------
(* Claims about executeToolCall and RunPythonScript.                       *)

\* The arguments of a call of a script tool decode: they are empty or JSON.
ScriptArgsDecode == tcall.arguments = "" \/ UnmarshalOK(tcall.arguments)

\* The call is one of a script the skill declares under a name that is not
\* built-in.
DeclaredScript == tcall.name \notin BuiltinTools /\ tcall.name \in DOMAIN tenv.scriptMap

\* The entries of tlog of one kind.
LogOf(op) == SelectSeq(tlog, LAMBDA e : e.op = op)

\* executeToolCall has returned and has called tool.RunPythonScript.
PythonRunnerCalled ==
    /\ tpc = "done"
    /\ \E k \in 1..Len(tlog) : tlog[k].op = "call" /\ tlog[k].fn = "RunPythonScript"

\* C28: RunPythonScript starts the script under python3 when python3 is on
\* PATH, under python when python3 is not on PATH and python is, and when
\* neither is on PATH it returns an error and starts no program.
C28_PythonResolution ==
    PythonRunnerCalled =>
        LET script == (CHOOSE e \in {tlog[k] : k \in 1..Len(tlog)} : e.op = "call").arg
        IN  IF "python3" \in tenv.onPath
            THEN LogOf("exec") = <<ProgramStarted("/usr/bin/python3", <<script>>)>>
            ELSE IF "python" \in tenv.onPath
                 THEN LogOf("exec") = <<ProgramStarted("/usr/bin/python", <<script>>)>>
                 ELSE /\ LogOf("exec") = <<>>
                      /\ ~tret.ok
                      /\ HasPrefix(tret.text,
                                   "tool execution failed for " \o tcall.name
                                   \o ": failed to find python3 or python in PATH: ")

\* C28 witness: python3 is not on PATH, python is, and the script ran under
\* python.
C28_Witness ==
    /\ PythonRunnerCalled
    /\ tenv.onPath = {"python"}
    /\ LogOf("exec") = <<ProgramStarted("/usr/bin/python", <<ScriptArg>>)>>
    /\ tret.ok

\* Both interpreters are on PATH and the script ran under python3.
C28_BothOnPathReached ==
    /\ PythonRunnerCalled
    /\ tenv.onPath = {"python3", "python"}
    /\ LogOf("exec") = <<ProgramStarted("/usr/bin/python3", <<ScriptArg>>)>>

\* Neither interpreter is on PATH: RunPythonScript returned the error.
C28_NeitherOnPathReached ==
    PythonRunnerCalled /\ tenv.onPath = {} /\ ~tret.ok /\ LogOf("exec") = <<>>

\* executeToolCall has returned from a read_file call whose arguments decode.
ReadFileDone ==
    tpc = "done" /\ tcall.name = "read_file" /\ UnmarshalOK(tcall.arguments)

\* The path read_file handed to tool.ReadFile.
PathRead == (CHOOSE e \in {tlog[k] : k \in 1..Len(tlog)} : e.op = "call").arg

\* C29 as stated: read_file reads a relative filePath under the skill's root
\* whenever a skill root is set, and reads an absolute filePath as it is.
C29_RelativePathsResolveAgainstSkillRoot ==
    ReadFileDone =>
        PathRead = IF ~IsAbs(tcall.path) /\ tenv.skillPath # ""
                   THEN tenv.skillPath \o "/" \o Clean(tcall.path)
                   ELSE tcall.path

\* What read_file does where C29 expects the skill's root: a relative filePath
\* is read under the skill's root when a skill root is set and the file exists
\* there; otherwise, and for an absolute filePath, the path is read as given.
C29_ResolvesOnlyExistingFiles ==
    ReadFileDone =>
        PathRead = IF /\ ~IsAbs(tcall.path)
                      /\ tenv.skillPath # ""
                      /\ (tenv.skillPath \o "/" \o Clean(tcall.path)) \in tenv.files
                   THEN tenv.skillPath \o "/" \o Clean(tcall.path)
                   ELSE tcall.path

\* A relative path was read under the skill's root.
C29_ResolvedReached ==
    /\ ReadFileDone /\ tcall.path = "./notes.md" /\ tenv.skillPath = SkillRoot
    /\ PathRead = "/skills/demo/notes.md" /\ tret.ok

\* A relative path was read from the working directory although a skill root
\* is set.
C29_ReadFromCwdReached ==
    /\ ReadFileDone /\ tcall.path = "notes.md" /\ tenv.skillPath = SkillRoot
    /\ tlog = <<Called("ReadFile", "notes.md"), FileRead("/work/notes.md")>>
    /\ tret = [ok |-> TRUE, text |-> "content of /work/notes.md"]

C30_ShellReached ==
    /\ tpc = "done" /\ DeclaredScript
    /\ tlog = <<Called("RunShellScript", "/skills/demo/scripts/helper.py.bak"),
                ProgramStarted("sh", <<"/skills/demo/scripts/helper.py.bak">>)>>

\* An undeclared name returned the "unknown tool" error.
C30_UnknownReached ==
    /\ tpc = "done" /\ tcall.name = "no_such_tool"
    /\ tret = [ok |-> FALSE, text |-> "unknown tool: no_such_tool"] /\ tlog = <<>>

-----------------------------------------------------------------------------
(* The Analysis, Report and Render subagents (later version of the package). *)

\* A context list has at most this many entries.
MaxContext == 2

\* strings.Index(s, substr): the byte offset of the first occurrence, or -1.
StringsIndex(s, substr) ==
    LET hits == {k \in 0..(Len(s) - Len(substr)) :
                    SubSeq(s, k + 1, k + Len(substr)) = substr}
    IN  IF hits = {} THEN -1 ELSE CHOOSE k \in hits : \A h \in hits : k <= h

\* strings.Contains(s, substr)
StringsContains(s, substr) == StringsIndex(s, substr) # -1

\* The Go slice expression s[from:]
Slice(s, from) == SubSeq(s, from + 1, Len(s))

\* strings.Join(elems, sep)
RECURSIVE StringsJoin(_, _)
StringsJoin(elems, sep) ==
    IF elems = <<>> THEN ""
    ELSE IF Len(elems) = 1 THEN elems[1]
    ELSE elems[1] \o sep \o StringsJoin(Tail(elems), sep)

\* The outputs of earlier tasks that stand in a context list.  The Report's
\* output may begin and end with white space; the Analysis quotes the header
\* of a Report entry it was shown.
ReportOutputs == {"# Games\nbody", "\n# Games\n"}
AnalyzeOutputs == {"as Output from REPORT task: says"}
SearchOutputs == {"results"}

\* An entry of parameters["context"] as Render reads it: a header line
\* "Output from {TYPE} task:" and, after it, the output of that task.
HeadedEntry(type, output) == "Output from " \o type \o " task:\n" \o output

\* The entries of parameters["context"].
ContextEntries ==
    {HeadedEntry("REPORT", o) : o \in ReportOutputs}
    \cup {HeadedEntry("ANALYZE", o) : o \in AnalyzeOutputs}
    \cup {HeadedEntry("SEARCH", o) : o \in SearchOutputs}

\* The tasks Execute is called with.  hasContent is
\* task.Parameters["content"].(string) succeeding, hasContext is
\* task.Parameters["context"].([]string) succeeding.
SubagentTasks ==
    { [description |-> "summarize", hasContent |-> hc, content |-> c,
       hasContext |-> hx, context |-> x, globalContext |-> g] :
        hc \in BOOLEAN, c \in {"", "# Given"}, hx \in BOOLEAN,
        x \in SeqsUpTo(ContextEntries, MaxContext), g \in {"", "be brief"} }

\* Parameters that are absent hold the zero value.
WellFormedTask(t) ==
    /\ ~t.hasContent => t.content = ""
    /\ ~t.hasContext => t.context = <<>>

\* How the subagents are built.
Setups ==
    { [agent |-> a, renderHTML |-> h, hasHandler |-> l] :
        a \in {"ANALYZE", "REPORT", "RENDER"}, h \in BOOLEAN, l \in BOOLEAN }

\* Result{TaskType, Success, Output, Error}
Result(taskType, success, output, error) ==
    [taskType |-> taskType, success |-> success, output |-> output, error |-> error]

\* What Execute returns: the Result and the error ("" is nil).
Return(r, err) == [result |-> r, err |-> err]

\* What interactionHandler.Log receives: a text and, where the text carries a
\* byte count, the count.
LogLine(text, bytes) == [text |-> text, bytes |-> bytes]
Logged(has, line) == IF has THEN <<line>> ELSE <<>>

\* The replies of the LLM and the errors of CreateChatCompletion.  The reply
\* carries at least one choice.
Completions == {"# Games\nbody", ""}
CompletionErrs == {"context canceled", "error, status code: 500"}

\* The user message: the description alone, or the format string of the
\* subagent filled with the description and the joined context.
Prompt(agent, t) ==
    IF t.hasContext /\ Len(t.context) > 0
    THEN (IF agent = "ANALYZE"
          THEN "\\u5206\\u6790\\u4ee5\\u4e0b\\u4fe1\\u606f\\u5e76 " \o t.description
          ELSE "\\u57fa\\u4e8e\\u4ee5\\u4e0b\\u4fe1\\u606f\\uff0c" \o t.description)
         \o ":\n\n" \o StringsJoin(t.context, "\n\n")
    ELSE t.description

\* The system message: the persona of the subagent and, when there is one, the
\* global context under its heading.
SystemPrompt(agent, t) ==
    (IF agent = "ANALYZE" THEN "analysis assistant" ELSE "report writing assistant")
    \o (IF t.globalContext # ""
        THEN "\n\n\\u6765\\u81ea\\u7528\\u6237\\u7684\\u91cd\\u8981\\u4e0a\\u4e0b\\u6587/\\u6307\\u4ee4\\uff1a\n"
             \o t.globalContext
        ELSE "")

\* openai.ChatCompletionRequest, with what became of it: state is "pending",
\* "failed" or "replied", answer is err.Error() or the content of the reply.
Request(agent, t) ==
    [system |-> SystemPrompt(agent, t), user |-> Prompt(agent, t),
     temperature |-> IF agent = "ANALYZE" THEN "0.3" ELSE "0.5",
     state |-> "pending", answer |-> ""]

\* The requests with the last one answered.
Answered(reqs, state, answer) ==
    [reqs EXCEPT ![Len(reqs)] = [@ EXCEPT !.state = state, !.answer = answer]]

\* Execute up to the call of CreateChatCompletion.
CallsLLM(agent) ==
    /\ apc = "start"
    /\ asetup.agent = agent
    /\ alogs' = alogs \o Logged(asetup.hasHandler, LogLine("> " \o agent, 0))
    /\ arequest' = arequest \o <<Request(agent, atask)>>
    /\ apc' = "llm"
    /\ UNCHANGED <<asetup, atask, acontent, areturns>>

\* CreateChatCompletion returns an error.
LLMFails(agent) ==
    /\ apc = "llm"
    /\ asetup.agent = agent
    /\ \E err \in CompletionErrs :
          /\ arequest' = Answered(arequest, "failed", err)
          /\ areturns' = areturns \o <<Return(Result(agent, FALSE, "", err), err)>>
    /\ apc' = "done"
    /\ UNCHANGED <<asetup, atask, acontent, alogs>>

\* CreateChatCompletion returns a reply.
LLMReplies(agent) ==
    /\ apc = "llm"
    /\ asetup.agent = agent
    /\ \E reply \in Completions :
          /\ arequest' = Answered(arequest, "replied", reply)
          /\ alogs' = alogs \o Logged(asetup.hasHandler, LogLine("done", Len(reply)))
          /\ areturns' = areturns \o <<Return(Result(agent, TRUE, reply, ""), "")>>
    /\ apc' = "done"
    /\ UNCHANGED <<asetup, atask, acontent>>

\* A failing Analysis that reports the error in a successful Result.
AnalysisFailsAsSuccess ==
    /\ apc = "llm"
    /\ asetup.agent = "ANALYZE"
    /\ \E err \in CompletionErrs :
          /\ arequest' = [arequest EXCEPT ![Len(arequest)] =
                             [@ EXCEPT !.state = "failed", !.answer = err]]
          /\ areturns' = areturns \o <<Return(Result("ANALYZE", TRUE, "", err), err)>>
    /\ apc' = "done"
    /\ UNCHANGED <<asetup, atask, acontent, alogs>>

AnalysisCallsLLM == CallsLLM("ANALYZE")
AnalysisFails == LLMFails("ANALYZE")
AnalysisSucceeds == LLMReplies("ANALYZE")
ReportCallsLLM == CallsLLM("REPORT")
ReportFails == LLMFails("REPORT")
ReportSucceeds == LLMReplies("REPORT")

\* Render: the entry of the context list the loop from the end stops at, or 0.
FoundReport(ctxContent) ==
    LET hits == {k \in 1..Len(ctxContent) :
                    StringsContains(ctxContent[k], "Output from REPORT task:")}
    IN  IF hits = {} THEN 0 ELSE CHOOSE k \in hits : \A h \in hits : h <= k

\* Render: the content taken from a found entry.
AfterHeader(entry) ==
    LET idx == StringsIndex(entry, "\n")
    IN  IF idx # -1 THEN Slice(entry, idx + 1) ELSE entry

\* Render: the content taken from the last entry when no entry was found.
AfterAnyHeader(entry) ==
    LET idx == StringsIndex(entry, "Output from ")
    IN  IF idx # -1
        THEN LET newlineIdx == StringsIndex(Slice(entry, idx), "\n")
             IN  IF newlineIdx # -1 THEN Slice(entry, idx + newlineIdx + 1) ELSE entry
        ELSE entry

\* Render: the content Execute renders for a task.
ResolveContent(t) ==
    IF t.hasContent THEN t.content
    ELSE IF t.hasContext /\ Len(t.context) > 0
         THEN LET found == FoundReport(t.context)
              IN  TrimSpace(IF found # 0 THEN AfterHeader(t.context[found])
                            ELSE AfterAnyHeader(t.context[Len(t.context)]))
         ELSE t.description

\* markdown.Render(content, 80, 6) and the complete page of gomarkdown: both
\* lay the content out anew.
TerminalRendering(content) == "[width 80, indent 6]" \o content
HTMLRendering(content) ==
    "<!DOCTYPE html><title>Agent Report</title>" \o content \o "</html>"

\* Render.Execute up to the content it will render.
RenderResolvesContent ==
    /\ apc = "start"
    /\ asetup.agent = "RENDER"
    /\ alogs' = alogs \o Logged(asetup.hasHandler, LogLine("> RENDER", 0))
    /\ acontent' = ResolveContent(atask)
    /\ apc' = "render"
    /\ UNCHANGED <<asetup, atask, arequest, areturns>>

\* A renderer that refuses an empty content.
RenderOutputRefusesEmpty ==
    /\ apc = "render"
    /\ asetup.agent = "RENDER"
    /\ alogs' = alogs
    /\ areturns' = areturns \o
          <<IF acontent = ""
            THEN Return(Result("RENDER", FALSE, "", "nothing to render"), "nothing to render")
            ELSE Return(Result("RENDER", TRUE, TerminalRendering(acontent), ""), "")>>
    /\ apc' = "done"
    /\ UNCHANGED <<asetup, atask, arequest, acontent>>

\* Render.Execute from the content to its return.
RenderOutput ==
    /\ apc = "render"
    /\ asetup.agent = "RENDER"
    /\ alogs' = alogs \o Logged(asetup.hasHandler, LogLine("rendering", Len(acontent)))
    /\ LET output == IF asetup.renderHTML THEN HTMLRendering(acontent)
                     ELSE TerminalRendering(acontent)
       IN  areturns' = areturns \o <<Return(Result("RENDER", TRUE, output, ""), "")>>
    /\ apc' = "done"
    /\ UNCHANGED <<asetup, atask, arequest, acontent>>

InitSubagents ==
    /\ apc = "start"
    /\ asetup \in Setups
    /\ atask \in {t \in SubagentTasks : WellFormedTask(t)}
    /\ arequest = <<>>
    /\ acontent = ""
    /\ alogs = <<>>
    /\ areturns = <<>>

\* One Execute call of one of the four subagents.
OneSubagent ==
    /\ \/ InitSubagents /\ IdleSearch
       \/ IdleSubagents /\ InitSearch
    /\ IdleRunner /\ IdleSession /\ IdleManager /\ IdleRun /\ IdleTool /\ IdleUI

NextSubagents ==
    \/ (AnalysisCallsLLM /\ UNCHANGED othersOfSubagents)
    \/ (AnalysisFails /\ UNCHANGED othersOfSubagents)
    \/ (AnalysisSucceeds /\ UNCHANGED othersOfSubagents)
    \/ (ReportCallsLLM /\ UNCHANGED othersOfSubagents)
    \/ (ReportFails /\ UNCHANGED othersOfSubagents)
    \/ (ReportSucceeds /\ UNCHANGED othersOfSubagents)
    \/ (RenderResolvesContent /\ UNCHANGED othersOfSubagents)
    \/ (RenderOutput /\ UNCHANGED othersOfSubagents)
    \/ (TavilyFails /\ UNCHANGED othersOfSearch)
    \/ (TavilySucceeds /\ UNCHANGED othersOfSearch)
    \/ (DuckDuckGoFails /\ UNCHANGED othersOfSearch)
    \/ (DuckDuckGoSucceeds /\ UNCHANGED othersOfSearch)
    \/ (ReviewSearchResults /\ UNCHANGED othersOfSearch)
    \/ (TavilySearchWithLimit /\ UNCHANGED othersOfSearch)
    \/ (WikipediaSearch /\ UNCHANGED othersOfSearch)

SpecSubagents == OneSubagent /\ [][NextSubagents]_vars

-----------------------------------------------------------------------------
(* Claims about the subagents.                                             *)

\* The first line of a text, without its newline, and what follows that line.
FirstLine(s) ==
    LET idx == StringsIndex(s, "\n")
    IN  IF idx = -1 THEN s ELSE SubSeq(s, 1, idx)
AfterFirstLine(s) ==
    LET idx == StringsIndex(s, "\n")
    IN  IF idx = -1 THEN "" ELSE SubSeq(s, idx + 2, Len(s))

\* The entries of a context list whose header line names the REPORT task.
ReportEntries(ctxContent) ==
    {k \in 1..Len(ctxContent) :
        StringsContains(FirstLine(ctxContent[k]), "Output from REPORT task:")}

\* The content the design's resolution order gives: parameters.content; else
\* the most recent entry with a REPORT header line, without that line; else
\* the last entry, without its "Output from ..." header line if it has one;
\* else the description.
ContentInOrder(t) ==
    IF t.hasContent THEN t.content
    ELSE IF t.hasContext /\ Len(t.context) > 0
         THEN LET reports == ReportEntries(t.context)
                  last == t.context[Len(t.context)]
              IN  IF reports # {}
                  THEN AfterFirstLine(t.context[CHOOSE k \in reports :
                                                   \A h \in reports : h <= k])
                  ELSE IF HasPrefix(last, "Output from ") THEN AfterFirstLine(last)
                       ELSE last
         ELSE t.description

\* The content comes from the context list.
FromContext(t) == ~t.hasContent /\ t.hasContext /\ Len(t.context) > 0

\* Render has resolved its content.
RenderResolved == asetup.agent = "RENDER" /\ apc \in {"render", "done"}

\* C21 as stated: Render renders parameters.content if present; else the
\* most recent context entry whose header line contains "Output from REPORT
\* task:", without that line; else the last context entry without its
\* "Output from ..." header; else the task description.
C21_ContentInStatedOrder ==
    RenderResolved => acontent = ContentInOrder(atask)

\* C21 with the content taken from the context compared up to leading and
\* trailing white space: still not what Execute renders.
C21_ContentInStatedOrderUpToSpace ==
    RenderResolved =>
        acontent = IF FromContext(atask) THEN TrimSpace(ContentInOrder(atask))
                   ELSE ContentInOrder(atask)

\* Where C21 agrees with Execute: when the text "Output from REPORT task:"
\* stands in no entry outside its header line, the rendered content is the
\* content of the stated order, trimmed of white space if it comes from the
\* context.
C21_StatedOrderWithoutQuotedHeaders ==
    (/\ RenderResolved
     /\ \A k \in 1..Len(atask.context) :
           StringsContains(atask.context[k], "Output from REPORT task:")
             => k \in ReportEntries(atask.context))
    => acontent = IF FromContext(atask) THEN TrimSpace(ContentInOrder(atask))
                  ELSE ContentInOrder(atask)

\* Render took the output of an Analysis for the Report, although the last
\* entry is a Search entry.
C21_QuotedEntryChosenReached ==
    /\ RenderResolved
    /\ ~atask.hasContent
    /\ atask.context = <<HeadedEntry("ANALYZE", "as Output from REPORT task: says"),
                         HeadedEntry("SEARCH", "results")>>
    /\ acontent = "as Output from REPORT task: says"

\* Render took the output of the most recent Report entry.
C21_ReportEntryChosenReached ==
    /\ RenderResolved
    /\ ~atask.hasContent
    /\ atask.context = <<HeadedEntry("REPORT", "# Games\nbody"),
                         HeadedEntry("SEARCH", "results")>>
    /\ acontent = "# Games\nbody"

\* The entries of a context list that the orchestrator built from a Report
\* result, and the output of the most recent one.
BuiltFromReport(ctxContent) ==
    {k \in 1..Len(ctxContent) :
        \E o \in ReportOutputs : ctxContent[k] = FormatOutput(Success("REPORT", o))}
LastReportOutput(ctxContent) ==
    LET built == BuiltFromReport(ctxContent)
        k == CHOOSE m \in built : \A h \in built : h <= m
    IN  CHOOSE o \in ReportOutputs : ctxContent[k] = FormatOutput(Success("REPORT", o))

\* Render was given a context with a Report entry and no parameters.content.
RoundTripCase ==
    RenderResolved /\ ~atask.hasContent /\ BuiltFromReport(atask.context) # {}

\* C22 as stated: when the context holds the entry built from a Report result
\* and parameters.content is absent, the content handed to the renderer is
\* the Report's output, nothing dropped or reordered.
C22_RoundTrip ==
    RoundTripCase => acontent = LastReportOutput(atask.context)

\* C22 compared up to leading and trailing white space: still violated, by an
\* entry after the Report entry that quotes the Report header.
C22_RoundTripUpToSpace ==
    RoundTripCase => acontent = TrimSpace(LastReportOutput(atask.context))

\* Render handed the renderer the output of the Analysis that follows the
\* Report entry.
C22_AnalysisRenderedReached ==
    /\ RoundTripCase
    /\ atask.context = <<HeadedEntry("REPORT", "# Games\nbody"),
                         HeadedEntry("ANALYZE", "as Output from REPORT task: says")>>
    /\ acontent = "as Output from REPORT task: says"

\* Render handed the renderer a Report output without its first and last
\* newline.
C22_TrimmedReached ==
    /\ RoundTripCase
    /\ atask.context = <<HeadedEntry("REPORT", "\n# Games\n")>>
    /\ acontent = "# Games"

\* The round trip of a Report output that is the only entry and has no white
\* space at its ends.
C22_RoundTripReached ==
    /\ RoundTripCase
    /\ atask.context = <<HeadedEntry("REPORT", "# Games\nbody")>>
    /\ acontent = "# Games\nbody"
    /\ apc = "done"
    /\ areturns[1].result.output = TerminalRendering("# Games\nbody")

\* Render.Execute has returned.
RenderReturned == asetup.agent = "RENDER" /\ apc = "done"

\* C23: Render.Execute returns, for every task, one Result with success=true
\* and an empty error, and a nil error beside it; before it returns there is
\* no Result.
C23_RenderNeverFails ==
    /\ RenderReturned =>
          /\ Len(areturns) = 1
          /\ areturns[1].result.taskType = "RENDER"
          /\ areturns[1].result.success
          /\ areturns[1].result.error = ""
          /\ areturns[1].err = ""
    /\ (asetup.agent = "RENDER" /\ apc # "done") => areturns = <<>>

\* C23 witness: Render returned success for a task whose content is present
\* and empty.
C23_Witness ==
    /\ RenderReturned
    /\ atask.hasContent /\ atask.content = ""
    /\ areturns = <<Return(Result("RENDER", TRUE, TerminalRendering(""), ""), "")>>

\* Render returned success for a task without content and context: the
\* description was rendered as an HTML page.
C23_DescriptionRenderedReached ==
    /\ RenderReturned
    /\ ~atask.hasContent /\ ~atask.hasContext /\ asetup.renderHTML
    /\ areturns = <<Return(Result("RENDER", TRUE, HTMLRendering("summarize"), ""), "")>>

\* An Execute call has returned, and the Result it returned.
ExecuteReturned == apc = "done" \/ spc = "done"
TheResult == IF spc = "done" THEN result ELSE areturns[1].result

\* The calls of Search that returned an error, and the requests of the other
\* subagents that did.
FailedCalls == {k \in 1..Len(calls) : ~calls[k].ok}
FailedRequests == {k \in 1..Len(arequest) : arequest[k].state = "failed"}

\* Execute has returned exactly one Result; before it returns there is none.
OneResult ==
    /\ apc = "done" => Len(areturns) = 1
    /\ apc # "done" => areturns = <<>>
    /\ spc = "done" <=> result # NoResult

\* C24 as stated: for every subagent, an error of the LLM or of a tool gives
\* a Result with success=false and the error's message; every Result with
\* success=true has an empty error; each Execute call gives exactly one
\* Result.
C24_AnyErrorFails ==
    /\ OneResult
    /\ ExecuteReturned =>
          /\ (FailedCalls # {} \/ FailedRequests # {}) =>
                ~TheResult.success /\ TheResult.error # ""
          /\ TheResult.success => TheResult.error = ""

\* C24, amended: an error of the LLM gives, for Analysis and Report, a Result
\* with success=false whose error is the message of that error; Search
\* returns success=false exactly when both web searches failed, with the
\* message of the second one, and success=true when only the first web
\* search, the review, the wider search or Wikipedia failed; Render returns
\* success=true; every Result with success=true has an empty error; each
\* Execute call gives exactly one Result.
C24_ErrorsOfTheSubagents ==
    /\ OneResult
    /\ ExecuteReturned =>
          /\ TheResult.success => TheResult.error = ""
          /\ asetup.agent \in {"ANALYZE", "REPORT"} =>
                LET req == arequest[Len(arequest)]
                IN  /\ Len(arequest) = 1
                    /\ req.state = "failed" =>
                          areturns[1] = Return(Result(asetup.agent, FALSE, "", req.answer),
                                               req.answer)
                    /\ req.state = "replied" =>
                          areturns[1] = Return(Result(asetup.agent, TRUE, req.answer, ""), "")
                    /\ req.state # "pending"
          /\ asetup.agent = "RENDER" => TheResult.success /\ arequest = <<>>
          /\ spc = "done" =>
                /\ ~result.success <=>
                      (FailedCallIdxs("TavilySearch") # {}
                       /\ FailedCallIdxs("DuckDuckGoSearch") # {})
                /\ ~result.success => result.error = DuckErr

\* C24 witness: the LLM call of Report failed and Execute returned the
\* failure with the error's message.
C24_Witness ==
    /\ asetup.agent = "REPORT" /\ apc = "done"
    /\ arequest[1].state = "failed" /\ arequest[1].answer = "error, status code: 500"
    /\ areturns = <<Return(Result("REPORT", FALSE, "", "error, status code: 500"),
                           "error, status code: 500")>>

\* Search returned success=true although the first web search had failed.
C24_SearchSucceedsAfterErrorReached ==
    /\ spc = "done" /\ result.success /\ result.error = ""
    /\ FailedCallIdxs("TavilySearch") # {}

\* Search returned success=false after both web searches had failed.
C24_SearchFailsReached ==
    /\ spc = "done" /\ ~result.success /\ result.error = DuckErr
    /\ FailedCallIdxs("TavilySearch") # {} /\ FailedCallIdxs("DuckDuckGoSearch") # {}

-----------------------------------------------------------------------------
(* The browser UI: plan panel, log parsing, loading state.                 *)

\* The page handles at most this many user and server events.
MaxHandled == 7

\* The markers the page looks for, written with their escapes: the pin and
\* the two words of "📍 步骤", "✓ 完成" and
\* "✗ 失败".
StepWord == "\\u6b65\\u9aa4"
StepPin == "\\ud83d\\udccd " \o StepWord
DoneMark == "\\u2713 \\u5b8c\\u6210"
FailMark == "\\u2717 \\u5931\\u8d25"

\* The decimal digits, and parseInt of a string of digits.
DigitChars == {"0", "1", "2", "3", "4", "5", "6", "7", "8", "9"}
DigitValue(c) ==
    CASE c = "0" -> 0 [] c = "1" -> 1 [] c = "2" -> 2 [] c = "3" -> 3 [] c = "4" -> 4
      [] c = "5" -> 5 [] c = "6" -> 6 [] c = "7" -> 7 [] c = "8" -> 8 [] c = "9" -> 9
RECURSIVE ParseInt(_)
ParseInt(digits) ==
    IF digits = "" THEN 0
    ELSE 10 * ParseInt(SubSeq(digits, 1, Len(digits) - 1))
         + DigitValue(SubSeq(digits, Len(digits), Len(digits)))

\* The number written in decimal, for the numbers of the model.
RECURSIVE Decimal(_)
Decimal(n) ==
    LET last == CHOOSE c \in DigitChars : DigitValue(c) = n % 10
    IN  IF n < 10 THEN last ELSE Decimal(n \div 10) \o last

\* The length of the run of digits of s that starts at position from.
RECURSIVE DigitRun(_, _)
DigitRun(s, from) ==
    IF from <= Len(s) /\ SubSeq(s, from, from) \in DigitChars
    THEN 1 + DigitRun(s, from + 1)
    ELSE 0

\* s has t at position from (positions count from 1).
HasAt(s, from, t) == from + Len(t) - 1 <= Len(s) /\ SubSeq(s, from, from + Len(t) - 1) = t

\* content.match(/<StepWord> (\d+)\/(\d+): \[(.*?)\] (.*)/) tried at position
\* p: the first group, or "" when the pattern does not match there.  The dot
\* matches no newline.
MatchAt(s, p) ==
    LET a == p + Len(StepWord) + 1
        d1 == DigitRun(s, a)
        b == a + d1 + 1
        d2 == DigitRun(s, b)
        c == b + d2 + 3
        closing == {q \in c..Len(s) :
                      /\ HasAt(s, q, "] ")
                      /\ \A r \in c..(q - 1) : SubSeq(s, r, r) # "\n"}
    IN  IF /\ HasAt(s, p, StepWord \o " ")
           /\ d1 >= 1 /\ HasAt(s, a + d1, "/")
           /\ d2 >= 1 /\ HasAt(s, b + d2, ": [")
           /\ closing # {}
        THEN SubSeq(s, a, a + d1 - 1)
        ELSE ""

\* The first group of the leftmost match of the pattern in content, or "".
Match(content) ==
    LET hits == {p \in 1..Len(content) : MatchAt(content, p) # ""}
    IN  IF hits = {} THEN ""
        ELSE MatchAt(content, CHOOSE p \in hits : \A h \in hits : p <= h)

\* The log contents the server sends.
StepMarker(step, of, type, desc) ==
    StepPin \o " " \o Decimal(step) \o "/" \o Decimal(of) \o ": [" \o type \o "] " \o desc
StepContents ==
    {StepMarker(step, MaxTasks, "SEARCH", "find") : step \in 1..MaxTasks}
    \cup {StepMarker(1, MaxTasks, "ANALYZE", "check " \o DoneMark)}
LogContents ==
    StepContents
    \cup {DoneMark, FailMark \o ": timeout", FailMark \o ": no " \o DoneMark,
          "> SEARCH", StepPin \o " overview"}

\* The plans of plan_review events: {description, tasks}, tasks being an
\* array of tasks or null.
UITask(type) == [type |-> type, description |-> "do " \o type]
UIPlans ==
    { [description |-> "goal", tasksNull |-> FALSE, tasks |-> ts] :
        ts \in SeqsUpTo({UITask("SEARCH"), UITask("REPORT")}, MaxTasks) }
    \cup { [description |-> "goal", tasksNull |-> TRUE, tasks |-> <<>>] }

\* The overlay showPlanReview adds to the document: its approve and modify
\* buttons are shown, the modification input is not.
Overlay == [view |-> "buttons", removed |-> FALSE]

\* The texts of the modification textarea.
ModificationTexts == {"", "  ", " add a step "}

\* The body sendResponse posts for an overlay.
Respond(modal, content) ==
    [url |-> "/api/respond", state |-> "pending", modal |-> modal, response |-> content]

\* The state updateTaskStatus works on.
Panel == [tasks |-> tasks, currentTaskIndex |-> currentTaskIndex, items |-> items]

\* updateTaskStatus(index, status) that leaves the task active before alone.
RECURSIVE updateTaskStatusKeepsPrevious(_, _, _)
updateTaskStatusKeepsPrevious(panel, index, status) ==
    IF index < 0 \/ index >= Len(panel.tasks) THEN panel
    ELSE LET moved == IF status = "active"
                      THEN [panel EXCEPT !.currentTaskIndex = index]
                      ELSE panel
         IN  IF index + 1 \notin DOMAIN moved.items THEN moved
             ELSE [moved EXCEPT !.items[index + 1] = status]

\* updateTaskStatus(index, status)
RECURSIVE updateTaskStatus(_, _, _)
updateTaskStatus(panel, index, status) ==
    IF index < 0 \/ index >= Len(panel.tasks) THEN panel
    ELSE LET previous ==
               IF /\ status = "active"
                  /\ panel.currentTaskIndex # -1
                  /\ panel.currentTaskIndex # index
               THEN updateTaskStatus(panel, panel.currentTaskIndex, "completed")
               ELSE panel
             moved == IF status = "active"
                      THEN [previous EXCEPT !.currentTaskIndex = index]
                      ELSE previous
         IN  IF index + 1 \notin DOMAIN moved.items THEN moved
             ELSE [moved EXCEPT !.items[index + 1] = status]

\* handleLog(content): the panel after it, and the class of the line added to
\* the terminal.
handleLog(panel, content) ==
    IF StringsContains(content, StepPin)
    THEN LET match == Match(content)
         IN  IF match # ""
             THEN [panel |-> updateTaskStatus(panel, ParseInt(match) - 1, "active"),
                   line |-> "highlight"]
             ELSE [panel |-> panel, line |-> "info"]
    ELSE IF StringsContains(content, DoneMark)
    THEN [panel |-> updateTaskStatus(panel, panel.currentTaskIndex, "completed"),
          line |-> "success"]
    ELSE IF StringsContains(content, FailMark)
    THEN [panel |-> updateTaskStatus(panel, panel.currentTaskIndex, "failed"),
          line |-> "error"]
    ELSE [panel |-> panel, line |-> "info"]

\* renderPlan(plan) that keeps currentTaskIndex.
renderPlanKeepsIndex(panel, p) ==
    IF p.tasksNull THEN panel
    ELSE [tasks |-> p.tasks, currentTaskIndex |-> panel.currentTaskIndex,
          items |-> [k \in 1..Len(p.tasks) |-> "pending"]]

\* renderPlan(plan): the panel after it.
renderPlan(panel, p) ==
    IF p.tasksNull THEN panel
    ELSE [tasks |-> p.tasks, currentTaskIndex |-> -1,
          items |-> [k \in 1..Len(p.tasks) |-> "pending"]]

\* What every handler does to the counters of the model.
Handles(event) ==
    /\ handled < MaxHandled
    /\ handled' = handled + 1
    /\ lastEvent' = event

\* What the user has typed when the form is submitted.
UserTexts == {"  ", " plan a trip "}

\* The submit handler up to its fetch. The form is submitted by the send
\* button or by Enter in the input, and neither works while they are
\* disabled; a text that trims to nothing returns at once.
Submit ==
    /\ ~loading
    /\ \E typed \in UserTexts :
          LET text == TrimSpace(typed)
          IN  /\ Handles([type |-> "submit", text |-> text])
              /\ IF text = ""
                 THEN UNCHANGED <<loading, items, currentTaskIndex, tasks, posts>>
                 ELSE /\ loading' = TRUE
                      /\ items' = <<>>
                      /\ currentTaskIndex' = -1
                      /\ tasks' = <<>>
                      /\ posts' = Append(posts, [url |-> "/api/chat", state |-> "pending"])
    /\ UNCHANGED <<eventSource, modals>>

\* handleEvent, case 'response', if it enabled the input again.
HandleResponseEnables ==
    /\ eventSource
    /\ Handles([type |-> "response"])
    /\ loading' = FALSE
    /\ UNCHANGED <<tasks, currentTaskIndex, items, eventSource, modals, posts>>

\* The fetch of the submit handler returns: the stream is opened on success,
\* the input is enabled again on failure.
ChatPostReturns ==
    /\ \E k \in 1..Len(posts), ok \in BOOLEAN :
          /\ posts[k].url = "/api/chat" /\ posts[k].state = "pending"
          /\ posts' = [posts EXCEPT ![k].state = IF ok THEN "ok" ELSE "failed"]
          /\ Handles([type |-> "posted", ok |-> ok])
          /\ IF ok
             THEN eventSource' = TRUE /\ loading' = loading
             ELSE eventSource' = eventSource /\ loading' = FALSE
    /\ UNCHANGED <<tasks, currentTaskIndex, items, modals>>

\* eventSource.onerror
SSEError ==
    /\ eventSource
    /\ Handles([type |-> "sse error"])
    /\ eventSource' = FALSE
    /\ UNCHANGED <<tasks, currentTaskIndex, items, loading, modals, posts>>

\* handleEvent, case 'log'
HandleLogEvent ==
    /\ eventSource
    /\ \E content \in LogContents :
          LET after == handleLog(Panel, content)
          IN  /\ Handles([type |-> "log", content |-> content, line |-> after.line])
              /\ currentTaskIndex' = after.panel.currentTaskIndex
              /\ items' = after.panel.items
    /\ UNCHANGED <<tasks, loading, eventSource, modals, posts>>

\* handleEvent, case 'plan_review': showPlanReview renders the plan and adds
\* the overlay; with tasks null it stops at plan.tasks.forEach, before the
\* overlay is added.
HandlePlanReview ==
    /\ eventSource
    /\ \E p \in UIPlans :
          LET after == renderPlan(Panel, p)
          IN  /\ Handles([type |-> "plan_review", plan |-> p])
              /\ tasks' = after.tasks
              /\ currentTaskIndex' = after.currentTaskIndex
              /\ items' = after.items
              /\ modals' = IF p.tasksNull THEN modals ELSE Append(modals, Overlay)
    /\ UNCHANGED <<loading, eventSource, posts>>

\* handleEvent, case 'response': a report tab and a line in the terminal.
HandleResponse ==
    /\ eventSource
    /\ Handles([type |-> "response"])
    /\ UNCHANGED <<tasks, currentTaskIndex, items, loading, eventSource, modals, posts>>

\* handleEvent, cases 'error' and 'done'
HandleTerminal ==
    /\ eventSource
    /\ \E type \in {"error", "done"} : Handles([type |-> type])
    /\ loading' = FALSE
    /\ UNCHANGED <<tasks, currentTaskIndex, items, eventSource, modals, posts>>

\* The click listener of approveBtn up to the fetch of sendResponse.
ClickApprove ==
    /\ \E k \in 1..Len(modals) :
          /\ ~modals[k].removed /\ modals[k].view = "buttons"
          /\ Handles([type |-> "click", button |-> "approve", modal |-> k])
          /\ posts' = Append(posts, Respond(k, ""))
    /\ UNCHANGED <<tasks, currentTaskIndex, items, loading, eventSource, modals>>

\* The click listener of modifyBtn: the input is shown, approve and modify
\* are hidden.
ClickModify ==
    /\ \E k \in 1..Len(modals) :
          /\ ~modals[k].removed /\ modals[k].view = "buttons"
          /\ Handles([type |-> "click", button |-> "modify", modal |-> k])
          /\ modals' = [modals EXCEPT ![k].view = "modify"]
    /\ UNCHANGED <<tasks, currentTaskIndex, items, loading, eventSource, posts>>

\* The click listener of submitModBtn up to the fetch of sendResponse; an
\* empty modification returns at once.
ClickSubmitMod ==
    /\ \E k \in 1..Len(modals), text \in ModificationTexts :
          LET modification == TrimSpace(text)
          IN  /\ ~modals[k].removed /\ modals[k].view = "modify"
              /\ Handles([type |-> "click", button |-> "submit", modal |-> k])
              /\ posts' = IF modification = "" THEN posts
                          ELSE Append(posts, Respond(k, modification))
    /\ UNCHANGED <<tasks, currentTaskIndex, items, loading, eventSource, modals>>

\* The fetch of sendResponse returns or throws: sendResponse catches the
\* error, and the listener that awaited it removes the overlay.
RespondPostReturns ==
    /\ \E k \in 1..Len(posts), ok \in BOOLEAN :
          /\ posts[k].url = "/api/respond" /\ posts[k].state = "pending"
          /\ posts' = [posts EXCEPT ![k].state = IF ok THEN "ok" ELSE "failed"]
          /\ modals' = [modals EXCEPT ![posts[k].modal].removed = TRUE]
          /\ Handles([type |-> "responded", ok |-> ok])
    /\ UNCHANGED <<tasks, currentTaskIndex, items, loading, eventSource>>

\* The page after DOMContentLoaded.
InitUI ==
    /\ tasks = <<>>
    /\ currentTaskIndex = -1
    /\ items = <<>>
    /\ loading = FALSE
    /\ eventSource = FALSE
    /\ modals = <<>>
    /\ posts = <<>>
    /\ handled = 0
    /\ lastEvent = [type |-> "none"]

NextUI ==
    \/ (Submit /\ UNCHANGED othersOfUI)
    \/ (ChatPostReturns /\ UNCHANGED othersOfUI)
    \/ (SSEError /\ UNCHANGED othersOfUI)
    \/ (HandleLogEvent /\ UNCHANGED othersOfUI)
    \/ (HandlePlanReview /\ UNCHANGED othersOfUI)
    \/ (HandleResponse /\ UNCHANGED othersOfUI)
    \/ (HandleTerminal /\ UNCHANGED othersOfUI)
    \/ (ClickApprove /\ UNCHANGED othersOfUI)
    \/ (ClickModify /\ UNCHANGED othersOfUI)
    \/ (ClickSubmitMod /\ UNCHANGED othersOfUI)
    \/ (RespondPostReturns /\ UNCHANGED othersOfUI)

UIAlone ==
    /\ InitUI /\ IdleRunner /\ IdleSearch /\ IdleSession /\ IdleManager /\ IdleRun
    /\ IdleTool /\ IdleSubagents

SpecUI == UIAlone /\ [][NextUI]_vars

-----------------------------------------------------------------------------
(* Claims about the UI.                                                    *)

\* The step markers of step number `step` among the log contents.
StepContentsOf(step) ==
    {c \in StepContents : HasPrefix(c, StepPin \o " " \o Decimal(step) \o "/")}

\* The event handled last is a log event with a step marker of `step`.
StepLogHandled(event, step) ==
    event.type = "log" /\ event.content \in StepContentsOf(step)

\* The tasks of the plan panel in a given state.
ItemsIn(its, status) == {k \in 1..Len(its) : its[k] = status}

\* C26 as stated: whenever a log event carries the step marker of step i, task
\* i-1 of the plan panel becomes the active task and currentTaskIndex = i-1.
C26_StepMarkerActivates ==
    \A step \in 1..MaxTasks :
        StepLogHandled(lastEvent, step) =>
            /\ currentTaskIndex = step - 1
            /\ step \in ItemsIn(items, "active")

\* C26, amended: whenever a log event carries the step marker of step i and
\* the plan panel shows at least i tasks, task i-1 becomes the only active
\* task, currentTaskIndex = i-1, and the task at the former currentTaskIndex,
\* if it is another one, becomes completed; every other task keeps its state.
\* When the panel shows fewer than i tasks the marker changes nothing.
C26_StepMarkerActivatesShownTask ==
    [][\A step \in 1..MaxTasks :
          StepLogHandled(lastEvent', step) =>
              IF step <= Len(tasks)
              THEN /\ currentTaskIndex' = step - 1
                   /\ tasks' = tasks
                   /\ items' = [k \in 1..Len(items) |->
                                  IF k = step THEN "active"
                                  ELSE IF k = currentTaskIndex + 1 THEN "completed"
                                  ELSE items[k]]
              ELSE UNCHANGED <<tasks, currentTaskIndex, items>>]_vars

\* C26 witness: the marker of step 2 made task 1 active and completed task 0.
C26_Witness ==
    /\ StepLogHandled(lastEvent, 2)
    /\ Len(tasks) = 2
    /\ currentTaskIndex = 1
    /\ items = <<"completed", "active">>

\* A step marker arrived while the panel showed no plan: nothing is active.
C26_NoPlanReached ==
    /\ StepLogHandled(lastEvent, 1)
    /\ tasks = <<>> /\ items = <<>> /\ currentTaskIndex = -1

\* The log event handled last contains a marker.
Carries(event, mark) == event.type = "log" /\ StringsContains(event.content, mark)

\* The plan panel with the task at currentTaskIndex, if there is one, set to
\* a status, and nothing else changed.
OnlyCurrentSet(status) ==
    /\ tasks' = tasks
    /\ currentTaskIndex' = currentTaskIndex
    /\ items' = [k \in 1..Len(items) |->
                   IF k = currentTaskIndex + 1 THEN status ELSE items[k]]

\* C27 as stated: a log event containing the completion marker sets the
\* current task to completed, one containing the failure marker sets it to
\* failed, and no other task changes its status.
C27_MarkersSetCurrentTask ==
    [][/\ Carries(lastEvent', DoneMark) => OnlyCurrentSet("completed")
       /\ Carries(lastEvent', FailMark) => OnlyCurrentSet("failed")]_vars

\* C27 for the log events without a step marker: the completion marker sets
\* the current task to completed and the failure marker sets it to failed.
C27_MarkersSetCurrentTaskUnlessStep ==
    [][~Carries(lastEvent', StepPin) =>
          /\ Carries(lastEvent', DoneMark) => OnlyCurrentSet("completed")
          /\ Carries(lastEvent', FailMark) => OnlyCurrentSet("failed")]_vars

\* What the page does for C27: a log event that contains the completion
\* marker and no step marker sets the task at currentTaskIndex to completed; one that contains
\* the failure marker and neither of the other two sets it to failed; no
\* other task changes its status, and with currentTaskIndex = -1 nothing
\* changes.
C27_MarkersSetCurrentTaskByPriority ==
    [][/\ (Carries(lastEvent', DoneMark) /\ ~Carries(lastEvent', StepPin))
             => OnlyCurrentSet("completed")
       /\ (/\ Carries(lastEvent', FailMark)
           /\ ~Carries(lastEvent', DoneMark)
           /\ ~Carries(lastEvent', StepPin))
             => OnlyCurrentSet("failed")]_vars

\* C27 witness: the failure marker set the active second task to failed and
\* left the completed first task alone.
C27_Witness ==
    /\ Carries(lastEvent, FailMark) /\ ~Carries(lastEvent, DoneMark)
    /\ currentTaskIndex = 1
    /\ items = <<"completed", "failed">>

\* The completion marker set the active task to completed.
C27_CompletedReached ==
    /\ lastEvent.type = "log" /\ lastEvent.content = DoneMark
    /\ currentTaskIndex = 0
    /\ items = <<"completed", "pending">>

\* A log event with the failure marker and the completion marker completed
\* the task.
C27_FailureCompletedReached ==
    /\ Carries(lastEvent, FailMark) /\ Carries(lastEvent, DoneMark)
    /\ ~Carries(lastEvent, StepPin)
    /\ currentTaskIndex = 0
    /\ items = <<"completed">>

\* The replies posted to /api/respond for the overlay of one plan_review.
RepliesOf(ps, modal) ==
    {k \in 1..Len(ps) : ps[k].url = "/api/respond" /\ ps[k].modal = modal}

\* C31: for each plan_review event shown, at most one reply is posted to the
\* response endpoint, also when approve or submit is clicked again while the
\* first request is in flight.
C31_AtMostOneReply ==
    \A modal \in 1..Len(modals) : Cardinality(RepliesOf(posts, modal)) <= 1

\* What the page does for C31: once the overlay of a plan_review is removed,
\* no further reply is posted for it; it is removed when the first fetch of
\* sendResponse has returned or thrown.
C31_NoReplyAfterRemoval ==
    [][\A modal \in 1..Len(modals) :
          modals[modal].removed => RepliesOf(posts', modal) = RepliesOf(posts, modal)]_vars

\* Approve was clicked twice while the first request was in flight: two
\* replies are pending for one plan_review.
C31_TwoRepliesInFlightReached ==
    \E modal \in 1..Len(modals) :
        \E j, k \in RepliesOf(posts, modal) :
            /\ j # k
            /\ posts[j].state = "pending" /\ posts[k].state = "pending"
            /\ posts[j].response = "" /\ posts[k].response = ""

\* One reply was posted, answered, and the overlay removed.
C31_OneReplyReached ==
    \E modal \in 1..Len(modals) :
        /\ modals[modal].removed
        /\ Cardinality(RepliesOf(posts, modal)) = 1
        /\ \A k \in RepliesOf(posts, modal) : posts[k].state = "ok"

-----------------------------------------------------------------------------
(* Claims about a failed chat completion of the tool-call loop.            *)

\* The chat completions of the trace that returned an error.
FailedChats == {k \in TraceIdxs("chat") : trace[k].what = FALSE}

\* C32: if a chat completion of the tool loop fails, executeSkillWithTools
\* returns an error at once: the failed request is the last thing it did (no
\* tool call is dispatched, no prompt shown, no back-end run and no chat
\* completion requested after it), and Run returns an empty output with the
\* error.
C32_ChatFailureReturnsAtOnce ==
    \A k \in FailedChats :
        /\ k = Len(trace)
        /\ pc = "failed"
        /\ finalOutput = ""
        /\ retErr = "ChatCompletion error: status 500"
        /\ RunResult.output = ""
        /\ RunResult.err = "failed during skill execution: ChatCompletion error: status 500"

\* C32 witness: the second chat completion failed, after a tool call of the
\* first reply had been dispatched.
C32_Witness ==
    /\ FailedChats # {}
    /\ TraceIdxs("dispatch") # {}
    /\ Cardinality(TraceIdxs("chat")) = 2
    /\ pc = "failed"

\* The first chat completion failed: nothing but the request was made.
C32_FirstChatFailsReached ==
    /\ trace = <<Event("chat", 0, FALSE)>>
    /\ messages = <<SystemMessage, UserMessage>>
    /\ pc = "failed"

-----------------------------------------------------------------------------
(* Claims about the plan panel and the input of the UI.                    *)

\* C33: after any sequence of log, plan_review and submit events at most one
\* task of the plan panel is active, an active task is the one at
\* currentTaskIndex, and currentTaskIndex is -1 or an index of the task list.
C33_OneActiveTaskAtCurrentIndex ==
    /\ Cardinality(ItemsIn(items, "active")) <= 1
    /\ \A k \in ItemsIn(items, "active") : k = currentTaskIndex + 1
    /\ currentTaskIndex = -1 \/ currentTaskIndex \in 0..(Len(tasks) - 1)

\* C33 witness: the first of two tasks is the active one.
C33_Witness ==
    /\ Len(tasks) = 2
    /\ currentTaskIndex = 0
    /\ items = <<"active", "pending">>

\* The task at currentTaskIndex has failed and no task is active.
C33_NoneActiveReached ==
    /\ currentTaskIndex = 1
    /\ items[2] = "failed"
    /\ ItemsIn(items, "active") = {}

\* A later plan_review replaced a plan with an active task.
C33_PlanReplacedReached ==
    /\ lastEvent.type = "plan_review"
    /\ Len(modals) = 2
    /\ currentTaskIndex = -1
    /\ items = <<"pending">>

\* The handler that ran is one of those that enable the input again: an
\* error or done event, or the POST of the submit failing.
Reenables(event) ==
    \/ event.type \in {"error", "done"}
    \/ event.type = "posted" /\ ~event.ok

\* C34: from a submit until a done event, an error event or a failed POST the
\* input and the send button stay disabled: a submit that sends a request
\* happens only while they are enabled and disables them, and only those
\* three enable them again.
C34_InputDisabledWhileInFlight ==
    [][/\ (Len(posts') > Len(posts) /\ posts'[Len(posts')].url = "/api/chat")
             => (~loading /\ loading')
       /\ (loading /\ ~loading') => Reenables(lastEvent')]_vars

\* C34 witness: a request was submitted, its POST succeeded, a log event and a
\* plan_review were handled, and the input is still disabled.
C34_Witness ==
    /\ loading
    /\ \E k \in 1..Len(posts) : posts[k].url = "/api/chat" /\ posts[k].state = "ok"
    /\ lastEvent.type = "plan_review"
    /\ handled >= 4

\* The done event enabled the input again.
C34_DoneEnablesReached ==
    /\ ~loading
    /\ lastEvent.type = "done"
    /\ posts # <<>>

\* The failed POST enabled the input again.
C34_FailedPostEnablesReached ==
    /\ ~loading
    /\ lastEvent.type = "posted" /\ ~lastEvent.ok

-----------------------------------------------------------------------------
(* Claims about scripts declared under the name of a built-in tool.        *)

\* The function of package tool that is the back-end of a built-in name.
BuiltinBackend(name) ==
    IF name = "read_file" THEN "ReadFile"
    ELSE IF name = "run_python_script" THEN "RunPythonScript"
    ELSE name

\* The call is one of a built-in name under which the skill declares a script.
ShadowedBuiltin == tcall.name \in BuiltinTools /\ tcall.name \in DOMAIN tenv.scriptMap

\* An entry of tlog that names a path: the argument of a call, the script of
\* a program started, or a file read.
Mentions(e, path) ==
    \/ e.op = "call" /\ e.arg = path
    \/ e.op = "exec" /\ \E k \in 1..Len(e.argv) : e.argv[k] = path
    \/ e.op = "read" /\ e.path = path

\* C35: a script declared under the name of a built-in tool never overrides
\* the built-in: a call of a built-in name goes to its built-in back-end, or
\* fails on its arguments with nothing called, and the script the skill
\* declares under that name is neither run nor read.
C35_BuiltinsWinOverScripts ==
    (tpc = "done" /\ tcall.name \in BuiltinTools) =>
        /\ IF UnmarshalOK(tcall.arguments)
           THEN /\ Len(LogOf("call")) = 1
                /\ LogOf("call")[1].fn = BuiltinBackend(tcall.name)
           ELSE /\ tlog = <<>>
                /\ ~tret.ok
                /\ HasPrefix(tret.text, "failed to unmarshal " \o tcall.name \o " arguments: ")
        /\ tcall.name \in DOMAIN tenv.scriptMap =>
              \A k \in 1..Len(tlog) : ~Mentions(tlog[k], tenv.scriptMap[tcall.name])

\* C35 witness: read_file, also declared as a script, read the file and ran
\* no script.
C35_Witness ==
    /\ tpc = "done" /\ ShadowedBuiltin /\ tcall.name = "read_file"
    /\ tenv.scriptMap["read_file"] = "/skills/demo/scripts/read_file.py"
    /\ tlog = <<Called("ReadFile", "/abs/notes.md"), FileRead("/abs/notes.md")>>
    /\ tret = [ok |-> TRUE, text |-> "content of /abs/notes.md"]

\* wikipedia_search, also declared as a script, went to its built-in back-end.
C35_OtherBuiltinReached ==
    /\ tpc = "done" /\ ShadowedBuiltin /\ tcall.name = "wikipedia_search"
    /\ tlog = <<Called("wikipedia_search", "")>>
    /\ tret.ok

\* A name that is not built-in was looked up in the script map and run.
C35_ScriptReached ==
    /\ tpc = "done" /\ tcall.name = "run_build"
    /\ "wikipedia_search" \in DOMAIN tenv.scriptMap
    /\ tlog = <<Called("RunShellScript", "/skills/demo/scripts/build.sh"),
                ProgramStarted("sh", <<"/skills/demo/scripts/build.sh">>)>>

=============================================================================
